---- MODULE Spec2Model ----
(***************************************************************************)
(* Job execution pipeline of should-i-watch-this: the Submit handler       *)
(* (POST /api/analyze) with its detached pipeline run and global timer,    *)
(* the Retry handler (POST /api/analyze/retry) and the health mark_failed  *)
(* endpoint, over the Job, Video, Analysis (Result), Claim and SpotCheck   *)
(* stores.  Every await of a handler is a suspension point, so a handler   *)
(* is a process whose pc names the store call or adapter call in flight.   *)
(* Line numbers in the comments are those of                               *)
(* src/src/app/api/analyze/retry/route.ts, which holds the Retry handler   *)
(* (lines 1-165) and the Submit handler with its run (lines 167-495).      *)
(***************************************************************************)
EXTENDS Integers, FiniteSets, Sequences, TLC

\* ---------------------------------------------------------------- bounds
\* Number of Submit requests (each with its own pipeline run and timer).
MaxSubmits == 2
\* Number of Retry requests made on a completed job (SpecRetry).
MaxRetries == 2
\* Number of Retry requests made alongside the Submit requests (SpecAll).
MaxMixedRetries == 1
\* Number of claims in one analysis output (each claim has one spot check).
NumClaims == 1
\* Number of runs the in-process runner starts (SpecQueue).
MaxQueueRuns == 3
\* Number of chunks the audio is split into (SpecChunks).
MaxChunks == 3
\* Number of distinct marked characters in a text given to detectLanguage.
MaxMarks == 2
\* Number of generateJobId calls followed (SpecJobId).
MaxCalls == 3

SubmitIds == 1..MaxSubmits
RetryIds == 1..MaxRetries
MixedRetryIds == 1..MaxMixedRetries
ClaimIdx == 1..NumClaims

\* ------------------------------------------------------- program constants
\* retry/route.ts:281  SIWT_MAX_DURATION_SECONDS = 120 * 60
SIWT_MAX_DURATION_SECONDS == 7200

Null == "null"

\* Error messages written to Job.errorMessage.
MsgTimeout == "Job timed out after 4.5 minutes (Vercel limit)"
MsgTooLong == "Video too long for analysis"
MsgNoVideoId == "Could not extract video ID from URL"
MsgWorker == "SIWT Media Worker failed"
MsgAnalysis == "OpenAI API error"
MsgAnalysisTimeout == "Analysis timeout"
MsgUnique == "Unique constraint failed on the fields: (jobId)"
MsgNotIterable == "analysis.claims is not iterable"
MsgManual == "Manually marked as failed due to being stuck"

\* ------------------------------------------------------------------ inputs
\* A URL is the form of the link and the video it names (0: none).
UrlWatch == [form |-> "watch", vid |-> 1]
UrlShort == [form |-> "short", vid |-> 1]
UrlLive == [form |-> "live", vid |-> 1]
UrlEmbed == [form |-> "embed", vid |-> 1]
UrlChannel == [form |-> "channel", vid |-> 0]
UrlOther == [form |-> "nohost", vid |-> 0]
NoUrl == [form |-> "none", vid |-> 0]
\* A url field that is not a string.
UrlNumber == [form |-> "number", vid |-> 0]

Urls == {UrlWatch, UrlShort, UrlLive, UrlChannel}
\* The URLs the modelled clients submit.
RequestUrls == {UrlWatch}

\* Durations the metadata stage can report (seconds; 0 stands for null).
Durations == {0, 600, 7201}

\* Texts the remote transcription worker can return.
WorkerTexts == {"", "t1"}

\* Shapes of the parsed LLM output.
OutputKinds == {"full", "noRequired", "noClaims"}

\* ------------------------------------------------------------- job identity
VidJob(v) == <<"vid", v>>
UuidJob(h) == <<"uuid", h>>
JobIds == {VidJob(1)} \cup {UuidJob(h) : h \in SubmitIds}
NoJobId == <<"none", 0>>

\* lib/utils.ts extractVideoId: watch?v=, youtu.be/, embed/, /v/ forms.
extractVideoId(u) ==
    IF u.form \in {"watch", "short", "embed", "v"} THEN u.vid ELSE 0

\* lib/video-metadata.ts extractVideoId: the same forms and /live/.
extractVideoIdMeta(u) ==
    IF u.form \in {"watch", "short", "embed", "v", "live"} THEN u.vid ELSE 0

\* A generateJobId that never uses the video id.
generateJobIdRandom(u, h) == UuidJob(h)

\* lib/utils.ts generateJobId; h stands for the randomness of randomUUID.
generateJobId(u, h) ==
    IF extractVideoId(u) # 0 THEN VidJob(extractVideoId(u)) ELSE UuidJob(h)

\* ------------------------------------------------------------------- state
VARIABLES
    apiKeySet,   \* process.env.OPENAI_API_KEY is set
    job,         \* Job table: id -> row
    video,       \* Video table: url -> row
    analysis,    \* Analysis table, keyed by its unique jobId
    claims,      \* Claim rows: [job, by, idx]
    spotChecks,  \* SpotCheck rows: [job, by, idx]
    sub,         \* Submit handlers and their pipeline runs
    ret,         \* Retry handlers
    workerCalls, \* number of transcript-acquisition adapter calls made
    poll,        \* Poll handler (GET /api/result/[jobId]) and its response
    stage,       \* one run seen stage by stage: elapsed time and strategies tried
    dl,          \* one call of downloadYouTubeAudio
    llm,         \* one call of analyzeTranscript
    mq,          \* memoryQueue beside the Job status its runner writes
    cap,         \* one call of fetchCaptions
    wh,          \* one chunked transcription (whisper.ts)
    lang,        \* one detectLanguage call and the prompts chosen for it
    gen          \* calls of generateJobId made so far: [url, id]

vars == <<apiKeySet, job, video, analysis, claims, spotChecks, sub, ret, workerCalls, poll,
          stage, dl, llm, mq, cap, wh, lang, gen>>

\* The stores and handlers of the job pipeline.
pipeline == <<apiKeySet, job, video, analysis, claims, spotChecks, sub, ret, workerCalls, poll>>

\* sub[h].found is bookkeeping of the model: what the handler's lookup read
\* ("ABSENT" or the Job's status).
\* Job row; runs and lost are bookkeeping of the model: the pipeline runs started
\* for the job since it was last absent or FAILED, and the transcript that the
\* run which wrote FAILED was holding when it wrote it.
NoLoss == [t |-> Null, u |-> NoUrl]
NoJob == [exists |-> FALSE, status |-> "NONE", errorMessage |-> Null,
          videoUrl |-> NoUrl, runs |-> 0, lost |-> NoLoss]
NoVideo == [exists |-> FALSE, transcript |-> Null]
NoBy == <<"none", 0>>
NoAnalysis == [exists |-> FALSE, by |-> NoBy, videoUrl |-> NoUrl]

RunBy(h) == <<"run", h>>
RetryBy(r) == <<"retry", r>>

IdleSub == [pc |-> "idle", url |-> NoUrl, job |-> NoJobId, existingVideo |-> Null,
            transcript |-> Null, timer |-> "unset", err |-> Null, out |-> "none",
            idx |-> 0, resp |-> 0, termWrites |-> 0, called |-> {}, long |-> FALSE,
            found |-> "none"]
NoSnapshot == [analysis |-> NoAnalysis, claims |-> {}, spotChecks |-> {}]
IdleRet == [pc |-> "idle", job |-> NoJobId, out |-> "none", idx |-> 0, resp |-> 0,
            before |-> NoSnapshot]
\* The body of a Poll response: the Job row with its included Analysis.
NoBody == [status |-> "NONE", errorMessage |-> Null, videoUrl |-> NoUrl,
           result |-> NoSnapshot, transcript |-> Null]
IdlePoll == [pc |-> "idle", id |-> NoJobId, resp |-> 0, body |-> NoBody]
IdleStage == [pc |-> "idle", rev |-> "none", now |-> 0, results |-> <<>>, err |-> Null]
\* last is what the latest attempt met: the total its progress reported (0: none
\* reported), the size of the file it left, and how its race ended.
NoAttempt == [total |-> 0, size |-> 0, raced |-> Null]
IdleDl == [pc |-> "idle", formats |-> <<>>, i |-> 0, tried |-> <<>>, lastError |-> Null,
           attemptError |-> Null, result |-> Null, thrown |-> <<Null, Null>>,
           fileSize |-> 0, last |-> NoAttempt]
NoContent == [json |-> FALSE, keys |-> {}]
NoApiError == [status |-> 0, code |-> Null]
NoResult == [keys |-> {}, languageCode |-> Null]
IdleLlm == [pc |-> "idle", languageCode |-> Null, calls |-> <<>>, content |-> NoContent,
            error |-> NoApiError, fallbackError |-> NoApiError, result |-> NoResult,
            thrown |-> Null]

\* log is the outcome of each fetch made, waited the pauses taken (ms).
IdleCap == [pc |-> "idle", url |-> NoUrl, attempt |-> 0, log |-> <<>>, waited |-> <<>>,
            result |-> Null, thrown |-> FALSE]

\* files is the sorted list of chunk indices, settled the chunks in the order
\* their transcriptions settled, texts the text of each fulfilled chunk.
IdleWh == [pc |-> "idle", fn |-> Null, files |-> <<>>, settled |-> <<>>, rejected |-> {},
           result |-> Null, thrown |-> Null]

IdleLang == [pc |-> "idle", text |-> {}, language |-> Null, template |-> Null]

\* Job ids the in-process runner handles (video ids).
RunnerJobs == {"A", "B"}
QueueRuns == 1..MaxQueueRuns
IdleRun == [pc |-> "idle", id |-> Null]
\* jobs is the Map of the MemoryQueue restricted to the runner's job ids
\* ("ABSENT": no entry); uuids counts the entries enqueue made under random
\* ids; store is the Job row's status.
IdleMq == [jobs |-> [k \in RunnerJobs |-> "ABSENT"], uuids |-> 0,
           store |-> [k \in RunnerJobs |-> "NONE"],
           run |-> [r \in QueueRuns |-> IdleRun]]

Init ==
    /\ apiKeySet \in BOOLEAN
    /\ job = [j \in JobIds |-> NoJob]
    /\ video = [u \in Urls |-> NoVideo]
    /\ analysis = [j \in JobIds |-> NoAnalysis]
    /\ claims = {}
    /\ spotChecks = {}
    /\ sub = [h \in SubmitIds |-> IdleSub]
    /\ ret = [r \in RetryIds |-> IdleRet]
    /\ workerCalls = 0
    /\ poll = IdlePoll
    /\ stage = IdleStage
    /\ dl = IdleDl
    /\ llm = IdleLlm
    /\ mq = IdleMq
    /\ cap = IdleCap
    /\ wh = IdleWh
    /\ lang = IdleLang
    /\ gen = <<>>

\* ------------------------------------------------------------ store helpers
\* prisma.job.update({data: {status, errorMessage}}) to a status other than FAILED.
JobSet(j, s, m) ==
    [job EXCEPT ![j].status = s, ![j].errorMessage = m, ![j].lost = NoLoss]

\* prisma.job.update({data: {status: "FAILED", errorMessage}}) by the run of url u
\* holding transcript t.
JobFail(j, m, t, u) ==
    [job EXCEPT ![j].status = "FAILED", ![j].errorMessage = m, ![j].runs = 0,
                ![j].lost = IF t # Null /\ t # "" THEN [t |-> t, u |-> u] ELSE NoLoss]

\* prisma.job.update({data: {status}}) leaves errorMessage as it is.
JobSetStatus(j, s) == JobSet(j, s, job[j].errorMessage)

\* prisma.video.upsert by url.
VideoUpsert(u, t) == [video EXCEPT ![u] = [exists |-> TRUE, transcript |-> t]]

\* JavaScript truthiness of a transcript string.
Truthy(t) == t # Null /\ t # ""

\* --------------------------------------------------- Submit: POST /api/analyze
\* A handler id is taken only when every smaller id is in use.
Fresh(h) == sub[h].pc = "idle" /\ \A g \in SubmitIds : g < h => sub[g].pc # "idle"

\* A url check without the test for the YouTube host names.
ValidUrlAnyHost(u) == u.form \notin {"none", "number"}

ValidUrl(u) == u.form \notin {"none", "number", "nohost"}

\* Lines 184-198: a missing url or a url without youtube.com / youtu.be is
\* answered 400, an unset OPENAI_API_KEY 500; nothing is read or written.
SubmitReject(h, u) ==
    /\ Fresh(h)
    /\ ~ValidUrl(u) \/ ~apiKeySet
    /\ sub' = [sub EXCEPT ![h].pc = "done", ![h].url = u,
                          ![h].resp = IF ValidUrl(u) THEN 500 ELSE 400]
    /\ UNCHANGED <<apiKeySet, job, video, analysis, claims, spotChecks, ret, workerCalls, poll,
                 stage, dl, llm, mq, cap, wh, lang, gen>>

\* What job.findUnique read for the id.
Found(id) == IF job[id].exists THEN job[id].status ELSE "ABSENT"

\* A lookup without the check for a job that is already queued or running.
SubmitLookupNoPendingCheck(h, u) ==
    /\ Fresh(h)
    /\ ValidUrl(u) /\ apiKeySet
    /\ LET id == generateJobId(u, h)
           existingJob == job[id]
       IN  sub' = [sub EXCEPT ![h] =
             IF existingJob.exists /\ existingJob.status = "COMPLETED" /\ analysis[id].exists
             THEN [@ EXCEPT !.pc = "done", !.url = u, !.job = id, !.resp = 200,
                            !.found = Found(id)]
             ELSE [@ EXCEPT !.pc = "findVideo", !.url = u, !.job = id, !.found = Found(id)]]
    /\ UNCHANGED <<apiKeySet, job, video, analysis, claims, spotChecks, ret, workerCalls, poll,
                 stage, dl, llm, mq, cap, wh, lang, gen>>

\* Lines 200-224: generateJobId, job.findUnique, and the two reuse branches.
SubmitLookup(h, u) ==
    /\ Fresh(h)
    /\ ValidUrl(u) /\ apiKeySet
    /\ LET id == generateJobId(u, h)
           existingJob == job[id]
       IN  sub' = [sub EXCEPT ![h] =
             IF existingJob.exists /\ existingJob.status = "COMPLETED" /\ analysis[id].exists
             THEN [@ EXCEPT !.pc = "done", !.url = u, !.job = id, !.resp = 200,
                            !.found = Found(id)]
             ELSE IF existingJob.exists /\ existingJob.status \in {"PENDING", "RUNNING"}
             THEN [@ EXCEPT !.pc = "done", !.url = u, !.job = id, !.resp = 202,
                            !.found = Found(id)]
             ELSE [@ EXCEPT !.pc = "findVideo", !.url = u, !.job = id, !.found = Found(id)]]
    /\ UNCHANGED <<apiKeySet, job, video, analysis, claims, spotChecks, ret, workerCalls, poll,
                 stage, dl, llm, mq, cap, wh, lang, gen>>

\* Lines 227-229: video.findUnique({where: {url}}) into existingVideo.
SubmitFindVideo(h) ==
    /\ sub[h].pc = "findVideo"
    /\ sub' = [sub EXCEPT ![h].pc = "upsert",
                          ![h].existingVideo = IF video[sub[h].url].exists
                                               THEN video[sub[h].url].transcript ELSE Null]
    /\ UNCHANGED <<apiKeySet, job, video, analysis, claims, spotChecks, ret, workerCalls, poll,
                 stage, dl, llm, mq, cap, wh, lang, gen>>

\* A Job created without a status gets the schema default.
DefaultStatus == "PENDING"

\* An upsert whose update branch leaves errorMessage as it is.
SubmitUpsertKeepsMessage(h) ==
    /\ sub[h].pc = "upsert"
    /\ LET id == sub[h].job
       IN  job' = [job EXCEPT ![id] =
                IF @.exists
                THEN [@ EXCEPT !.status = "PENDING", !.videoUrl = sub[h].url,
                               !.runs = @ + 1, !.lost = NoLoss]
                ELSE [exists |-> TRUE, status |-> DefaultStatus, errorMessage |-> Null,
                      videoUrl |-> sub[h].url, runs |-> 1, lost |-> NoLoss]]
    /\ sub' = [sub EXCEPT ![h].pc = "setRunning", ![h].resp = 202]
    /\ UNCHANGED <<apiKeySet, video, analysis, claims, spotChecks, ret, workerCalls, poll,
                 stage, dl, llm, mq, cap, wh, lang, gen>>

\* Lines 232-243 and 246-256, 488-489: job.upsert to PENDING, then the detached
\* run is started (it runs up to its first await) and 202 is answered.
SubmitUpsert(h) ==
    /\ sub[h].pc = "upsert"
    /\ LET id == sub[h].job
       IN  job' = [job EXCEPT ![id] =
                IF @.exists
                THEN [@ EXCEPT !.status = "PENDING", !.videoUrl = sub[h].url,
                               !.errorMessage = Null, !.runs = @ + 1, !.lost = NoLoss]
                ELSE [exists |-> TRUE, status |-> DefaultStatus, errorMessage |-> Null,
                      videoUrl |-> sub[h].url, runs |-> 1, lost |-> NoLoss]]
    /\ sub' = [sub EXCEPT ![h].pc = "setRunning", ![h].resp = 202]
    /\ UNCHANGED <<apiKeySet, video, analysis, claims, spotChecks, ret, workerCalls, poll,
                 stage, dl, llm, mq, cap, wh, lang, gen>>

\* Lines 232-256, 488-493 with queue.ts 56-68: the job is upserted and the
\* detached run started as in SubmitUpsert, then enqueueJob rejects (the
\* Supabase backend is configured and its enqueue request fails) and the outer
\* catch answers 500.
SubmitEnqueueFails(h) ==
    /\ sub[h].pc = "upsert"
    /\ LET id == sub[h].job
       IN  job' = [job EXCEPT ![id] =
                IF @.exists
                THEN [@ EXCEPT !.status = "PENDING", !.videoUrl = sub[h].url,
                               !.errorMessage = Null, !.runs = @ + 1, !.lost = NoLoss]
                ELSE [exists |-> TRUE, status |-> DefaultStatus, errorMessage |-> Null,
                      videoUrl |-> sub[h].url, runs |-> 1, lost |-> NoLoss]]
    /\ sub' = [sub EXCEPT ![h].pc = "setRunning", ![h].resp = 500]
    /\ UNCHANGED <<apiKeySet, video, analysis, claims, spotChecks, ret, workerCalls, poll,
                 stage, dl, llm, mq, cap, wh, lang, gen>>

\* ------------------------------------------------------------ pipeline run
\* Entering the catch block (lines 442-450): the message is kept, the timer is
\* cleared when timeoutId is set, and the transcript decides the next write.
Caught(s, msg) ==
    [s EXCEPT !.err = msg,
              !.timer = IF @ = "armed" THEN "cleared" ELSE @,
              !.pc = IF Truthy(s.transcript) THEN "catchSave" ELSE "catchFail"]

\* A run that sets RUNNING without arming a timer.
RunSetRunningNoTimer(h) ==
    /\ sub[h].pc = "setRunning"
    /\ job' = JobSetStatus(sub[h].job, "RUNNING")
    /\ sub' = [sub EXCEPT ![h].pc = "metadata"]
    /\ UNCHANGED <<apiKeySet, video, analysis, claims, spotChecks, ret, workerCalls, poll,
                 stage, dl, llm, mq, cap, wh, lang, gen>>

\* Lines 256-271: job.update to RUNNING, then setTimeout arms the global timer.
RunSetRunning(h) ==
    /\ sub[h].pc = "setRunning"
    /\ job' = JobSetStatus(sub[h].job, "RUNNING")
    /\ sub' = [sub EXCEPT ![h].pc = "metadata", ![h].timer = "armed"]
    /\ UNCHANGED <<apiKeySet, video, analysis, claims, spotChecks, ret, workerCalls, poll,
                 stage, dl, llm, mq, cap, wh, lang, gen>>

\* Lines 260-271: the timer callback writes FAILED with the timeout message.
TimerFire(h) ==
    /\ sub[h].timer = "armed"
    /\ job' = JobFail(sub[h].job, MsgTimeout, sub[h].transcript, sub[h].url)
    /\ sub' = [sub EXCEPT ![h].timer = "fired", ![h].termWrites = @ + 1]
    /\ UNCHANGED <<apiKeySet, video, analysis, claims, spotChecks, ret, workerCalls, poll,
                 stage, dl, llm, mq, cap, wh, lang, gen>>

\* Lines 277-284: extractVideoMetadata never throws (it returns nulls on any
\* failure); a duration above the ceiling selects the rejection write.
\* A ceiling check that compares against a larger limit.
TooLongLoose(d) == d # 0 /\ d > SIWT_MAX_DURATION_SECONDS + 600

TooLong(d) == d # 0 /\ d > SIWT_MAX_DURATION_SECONDS

RunMetadata(h) ==
    /\ sub[h].pc = "metadata"
    /\ \E d \in Durations :
         sub' = [sub EXCEPT ![h].pc = IF TooLong(d) THEN "reject" ELSE "transcript",
                            ![h].long = d > SIWT_MAX_DURATION_SECONDS,
                            ![h].called = @ \cup {"metadata"}]
    /\ UNCHANGED <<apiKeySet, job, video, analysis, claims, spotChecks, ret, workerCalls, poll,
                 stage, dl, llm, mq, cap, wh, lang, gen>>

\* Lines 285-293: job.update to FAILED with the too-long message, then return;
\* the timer is left armed.
RunDurationReject(h) ==
    /\ sub[h].pc = "reject"
    /\ job' = JobFail(sub[h].job, MsgTooLong, sub[h].transcript, sub[h].url)
    /\ sub' = [sub EXCEPT ![h].pc = "done", ![h].termWrites = @ + 1]
    /\ UNCHANGED <<apiKeySet, video, analysis, claims, spotChecks, ret, workerCalls, poll,
                 stage, dl, llm, mq, cap, wh, lang, gen>>

\* Lines 301-313: a truthy existingVideo.transcript is reused.
RunReuseTranscript(h) ==
    /\ sub[h].pc = "transcript"
    /\ Truthy(sub[h].existingVideo)
    /\ sub' = [sub EXCEPT ![h].pc = "analysis", ![h].transcript = sub[h].existingVideo,
                          ![h].called = @ \cup {"cache"}]
    /\ UNCHANGED <<apiKeySet, job, video, analysis, claims, spotChecks, ret, workerCalls, poll,
                 stage, dl, llm, mq, cap, wh, lang, gen>>

\* Worker failures: entity too large, and any other error or its timeout.
WorkerErrors == {"413", "other"}

WorkerMessage(e) == IF e = "413" THEN MsgTooLong ELSE MsgWorker

\* Lines 314-363: without a cached transcript the video id is extracted and the
\* remote worker is called under its own timeout; a worker error is rethrown.
RunAcquireTranscript(h) ==
    /\ sub[h].pc = "transcript"
    /\ ~Truthy(sub[h].existingVideo)
    /\ IF extractVideoIdMeta(sub[h].url) = 0
       THEN /\ sub' = [sub EXCEPT ![h] = Caught(@, MsgNoVideoId)]
            /\ UNCHANGED workerCalls
       ELSE /\ workerCalls' = workerCalls + 1
            /\ \/ \E t \in WorkerTexts :
                    sub' = [sub EXCEPT ![h].pc = "analysis", ![h].transcript = t,
                                       ![h].called = @ \cup {"worker"}]
               \/ \E e \in WorkerErrors :
                    sub' = [sub EXCEPT ![h] =
                              Caught([@ EXCEPT !.called = @ \cup {"worker"}], WorkerMessage(e))]
    /\ UNCHANGED <<apiKeySet, job, video, analysis, claims, spotChecks, ret, poll,
                 stage, dl, llm, mq, cap, wh, lang, gen>>

AnalysisErrors == {MsgAnalysis, MsgAnalysisTimeout}
\* Output shapes that reach the persistence stage of a run.
RunOutputKinds == {"full", "noClaims"}

\* A run that analyses and starts saving the video without awaiting the analysis.
RunAnalysisNotAwaited(h) ==
    /\ sub[h].pc = "analysis"
    /\ \E k \in RunOutputKinds :
            sub' = [sub EXCEPT ![h].pc = "upsertVideo", ![h].out = k]
    /\ UNCHANGED <<apiKeySet, job, video, analysis, claims, spotChecks, ret, workerCalls, poll,
                 stage, dl, llm, mq, cap, wh, lang, gen>>

\* Lines 369-374: analyzeTranscript raced against the 2-minute timer.
RunAnalysis(h) ==
    /\ sub[h].pc = "analysis"
    /\ \/ \E k \in RunOutputKinds :
            sub' = [sub EXCEPT ![h].pc = "upsertVideo", ![h].out = k,
                               ![h].called = @ \cup {"analysis"}]
       \/ \E m \in AnalysisErrors :
            sub' = [sub EXCEPT ![h] = Caught([@ EXCEPT !.called = @ \cup {"analysis"}], m)]
    /\ UNCHANGED <<apiKeySet, job, video, analysis, claims, spotChecks, ret, workerCalls, poll,
                 stage, dl, llm, mq, cap, wh, lang, gen>>

\* Rows of one job in the Claim and SpotCheck tables.
ClaimsOf(id) == {c \in claims : c.job = id}
SpotChecksOf(id) == {c \in spotChecks : c.job = id}
Row(id, by, i) == [job |-> id, by |-> by, idx |-> i]

\* Analysis.jobId is unique (Job and Result are 1:1).
JobHasAnalysis(id) == analysis[id].exists

MsgForeignKey == "Foreign key constraint failed on the field: claimId"

\* Lines 384-397: video.upsert with the run's transcript.
RunUpsertVideo(h) ==
    /\ sub[h].pc = "upsertVideo"
    /\ video' = VideoUpsert(sub[h].url, sub[h].transcript)
    /\ sub' = [sub EXCEPT ![h].pc = "createAnalysis"]
    /\ UNCHANGED <<apiKeySet, job, analysis, claims, spotChecks, ret, workerCalls, poll,
                 stage, dl, llm, mq, cap, wh, lang, gen>>

\* A run that goes on to the claims without creating the Analysis row.
RunCreateAnalysisSkipped(h) ==
    /\ sub[h].pc = "createAnalysis"
    /\ sub' = [sub EXCEPT ![h].pc = "createClaim", ![h].idx = 1]
    /\ UNCHANGED <<apiKeySet, job, video, analysis, claims, spotChecks, ret, workerCalls, poll,
                 stage, dl, llm, mq, cap, wh, lang, gen>>

\* Lines 401-418: analysis.create for the job (rejected when the job already has
\* an Analysis), then the claims loop is entered; iterating a missing claims
\* field throws.
RunCreateAnalysis(h) ==
    /\ sub[h].pc = "createAnalysis"
    /\ IF JobHasAnalysis(sub[h].job)
       THEN /\ sub' = [sub EXCEPT ![h] = Caught(@, MsgUnique)]
            /\ UNCHANGED analysis
       ELSE /\ analysis' = [analysis EXCEPT ![sub[h].job] =
                               [exists |-> TRUE, by |-> RunBy(h), videoUrl |-> sub[h].url]]
            /\ sub' = [sub EXCEPT ![h] =
                         IF sub[h].out = "noClaims"
                         THEN Caught(@, MsgNotIterable)
                         ELSE [@ EXCEPT !.pc = "createClaim", !.idx = 1]]
    /\ UNCHANGED <<apiKeySet, job, video, claims, spotChecks, ret, workerCalls, poll,
                 stage, dl, llm, mq, cap, wh, lang, gen>>

\* Lines 419-425: claim.create for the current claim of the output.
RunCreateClaim(h) ==
    /\ sub[h].pc = "createClaim"
    /\ claims' = claims \cup {Row(sub[h].job, RunBy(h), sub[h].idx)}
    /\ sub' = [sub EXCEPT ![h].pc = "createSpotCheck"]
    /\ UNCHANGED <<apiKeySet, job, video, analysis, spotChecks, ret, workerCalls, poll,
                 stage, dl, llm, mq, cap, wh, lang, gen>>

\* Lines 426-437: spotCheck.create for the claim just created; after the last
\* one the timer is cleared.
RunCreateSpotCheck(h) ==
    /\ sub[h].pc = "createSpotCheck"
    /\ IF Row(sub[h].job, RunBy(h), sub[h].idx) \notin claims
       THEN /\ sub' = [sub EXCEPT ![h] = Caught(@, MsgForeignKey)]
            /\ UNCHANGED spotChecks
       ELSE /\ spotChecks' = spotChecks \cup {Row(sub[h].job, RunBy(h), sub[h].idx)}
            /\ sub' = [sub EXCEPT ![h] =
                         IF sub[h].idx < NumClaims
                         THEN [@ EXCEPT !.pc = "createClaim", !.idx = @ + 1]
                         ELSE [@ EXCEPT !.pc = "complete", !.idx = 0,
                                        !.timer = IF @ = "armed" THEN "cleared" ELSE @]]
    /\ UNCHANGED <<apiKeySet, job, video, analysis, claims, ret, workerCalls, poll,
                 stage, dl, llm, mq, cap, wh, lang, gen>>

\* Lines 439-441: job.update to COMPLETED.
RunComplete(h) ==
    /\ sub[h].pc = "complete"
    /\ job' = JobSetStatus(sub[h].job, "COMPLETED")
    /\ sub' = [sub EXCEPT ![h].pc = "done", ![h].termWrites = @ + 1]
    /\ UNCHANGED <<apiKeySet, video, analysis, claims, spotChecks, ret, workerCalls, poll,
                 stage, dl, llm, mq, cap, wh, lang, gen>>

\* The message of a store call that the database rejects or cannot serve.
MsgStore == "Can't reach database server"

\* The store calls of the persistence stage, by the run's position.
PersistencePcs == {"upsertVideo", "createAnalysis", "createClaim", "createSpotCheck",
                   "complete"}

\* A persistence failure that is dropped: the run ends without recording it.
RunPersistFailSwallowed(h) ==
    /\ sub[h].pc \in PersistencePcs
    /\ sub' = [sub EXCEPT ![h].pc = "done", ![h].err = MsgStore]
    /\ UNCHANGED <<apiKeySet, job, video, analysis, claims, spotChecks, ret, workerCalls, poll,
                 stage, dl, llm, mq, cap, wh, lang, gen>>

\* Lines 384-441: the store call in flight of the persistence stage (video.upsert,
\* analysis.create, claim.create, spotCheck.create or the COMPLETED update)
\* rejects; nothing is written and the error is thrown into the catch block.
RunPersistFail(h) ==
    /\ sub[h].pc \in PersistencePcs
    /\ sub' = [sub EXCEPT ![h] = Caught(@, MsgStore)]
    /\ UNCHANGED <<apiKeySet, job, video, analysis, claims, spotChecks, ret, workerCalls, poll,
                 stage, dl, llm, mq, cap, wh, lang, gen>>

\* A failed transcript save whose error replaces the caught one.
RunCatchSaveFailMasks(h) ==
    /\ sub[h].pc = "catchSave"
    /\ sub' = [sub EXCEPT ![h].pc = "catchFail", ![h].err = MsgStore]
    /\ UNCHANGED <<apiKeySet, job, video, analysis, claims, spotChecks, ret, workerCalls, poll,
                 stage, dl, llm, mq, cap, wh, lang, gen>>

\* Lines 454-477: the catch block's video.upsert rejects; the inner catch logs
\* the error and the block goes on to the FAILED update.
RunCatchSaveFail(h) ==
    /\ sub[h].pc = "catchSave"
    /\ sub' = [sub EXCEPT ![h].pc = "catchFail"]
    /\ UNCHANGED <<apiKeySet, job, video, analysis, claims, spotChecks, ret, workerCalls, poll,
                 stage, dl, llm, mq, cap, wh, lang, gen>>

\* Lines 453-477: the catch block saves a truthy transcript to the Video row.
RunCatchSave(h) ==
    /\ sub[h].pc = "catchSave"
    /\ video' = VideoUpsert(sub[h].url, sub[h].transcript)
    /\ sub' = [sub EXCEPT ![h].pc = "catchFail"]
    /\ UNCHANGED <<apiKeySet, job, analysis, claims, spotChecks, ret, workerCalls, poll,
                 stage, dl, llm, mq, cap, wh, lang, gen>>

\* A catch block that records a generic message instead of the caught one.
RunCatchFailGeneric(h) ==
    /\ sub[h].pc = "catchFail"
    /\ job' = JobFail(sub[h].job, "Unknown error occurred", sub[h].transcript, sub[h].url)
    /\ sub' = [sub EXCEPT ![h].pc = "done", ![h].termWrites = @ + 1]
    /\ UNCHANGED <<apiKeySet, video, analysis, claims, spotChecks, ret, workerCalls, poll,
                 stage, dl, llm, mq, cap, wh, lang, gen>>

\* Lines 479-484: job.update to FAILED with the caught message.
RunCatchFail(h) ==
    /\ sub[h].pc = "catchFail"
    /\ job' = JobFail(sub[h].job, sub[h].err, sub[h].transcript, sub[h].url)
    /\ sub' = [sub EXCEPT ![h].pc = "done", ![h].termWrites = @ + 1]
    /\ UNCHANGED <<apiKeySet, video, analysis, claims, spotChecks, ret, workerCalls, poll,
                 stage, dl, llm, mq, cap, wh, lang, gen>>

\* ---------------------------------------------- Retry: POST /api/analyze/retry
FreshRetry(r) == ret[r].pc = "idle" /\ \A g \in RetryIds : g < r => ret[g].pc # "idle"

\* The Result of a job as a Retry finds it: fields, claims and spot checks.
Snapshot(id) ==
    [analysis |-> analysis[id], claims |-> ClaimsOf(id), spotChecks |-> SpotChecksOf(id)]

\* The transcript of the Video that the job's Analysis references.
RetryTranscript(id) ==
    IF job[id].exists /\ analysis[id].exists
    THEN video[analysis[id].videoUrl].transcript ELSE Null

\* A lookup that does not test the Result's transcript.
RetryLookupNoTranscriptCheck(r, id) ==
    /\ FreshRetry(r)
    /\ ret' = [ret EXCEPT ![r] =
         IF id = NoJobId THEN [@ EXCEPT !.pc = "done", !.resp = 400]
         ELSE IF ~job[id].exists THEN [@ EXCEPT !.pc = "done", !.job = id, !.resp = 404]
         ELSE [@ EXCEPT !.pc = "setRunning", !.job = id, !.before = Snapshot(id)]]
    /\ UNCHANGED <<apiKeySet, job, video, analysis, claims, spotChecks, sub, workerCalls, poll,
                 stage, dl, llm, mq, cap, wh, lang, gen>>

\* Lines 11-56: a missing jobId is answered 400, an unknown job 404, a job
\* without a Result whose Video has a transcript 400; otherwise the language is
\* redetected on the cached transcript.
RetryLookup(r, id) ==
    /\ FreshRetry(r)
    /\ ret' = [ret EXCEPT ![r] =
         IF id = NoJobId THEN [@ EXCEPT !.pc = "done", !.resp = 400]
         ELSE IF ~job[id].exists THEN [@ EXCEPT !.pc = "done", !.job = id, !.resp = 404]
         ELSE IF ~Truthy(RetryTranscript(id))
         THEN [@ EXCEPT !.pc = "done", !.job = id, !.resp = 400]
         ELSE [@ EXCEPT !.pc = "setRunning", !.job = id, !.before = Snapshot(id)]]
    /\ UNCHANGED <<apiKeySet, job, video, analysis, claims, spotChecks, sub, workerCalls, poll,
                 stage, dl, llm, mq, cap, wh, lang, gen>>

\* Lines 59-65: job.update to RUNNING with errorMessage null.
RetrySetRunning(r) ==
    /\ ret[r].pc = "setRunning"
    /\ job' = JobSet(ret[r].job, "RUNNING", Null)
    /\ ret' = [ret EXCEPT ![r].pc = "analyze"]
    /\ UNCHANGED <<apiKeySet, video, analysis, claims, spotChecks, sub, workerCalls, poll,
                 stage, dl, llm, mq, cap, wh, lang, gen>>

\* A Retry that calls the transcription worker again before analysing.
RetryAnalyzeReacquire(r) ==
    /\ ret[r].pc = "analyze"
    /\ workerCalls' = workerCalls + 1
    /\ \/ \E k \in OutputKinds :
            ret' = [ret EXCEPT ![r].out = k,
                               ![r].pc = IF k = "noRequired" THEN "catch" ELSE "updateAnalysis"]
       \/ ret' = [ret EXCEPT ![r].pc = "catch"]
    /\ UNCHANGED <<apiKeySet, job, video, analysis, claims, spotChecks, sub, poll,
                 stage, dl, llm, mq, cap, wh, lang, gen>>

\* Lines 69-80: analyzeTranscript on the cached transcript, then the check of
\* oneLiner, bulletPoints and trustScore.
RetryAnalyze(r) ==
    /\ ret[r].pc = "analyze"
    /\ \/ \E k \in OutputKinds :
            ret' = [ret EXCEPT ![r].out = k,
                               ![r].pc = IF k = "noRequired" THEN "catch" ELSE "updateAnalysis"]
       \/ ret' = [ret EXCEPT ![r].pc = "catch"]
    /\ UNCHANGED <<apiKeySet, job, video, analysis, claims, spotChecks, sub, workerCalls, poll,
                 stage, dl, llm, mq, cap, wh, lang, gen>>

\* Lines 86-97: analysis.update of the Result's fields in place.
RetryUpdateAnalysis(r) ==
    /\ ret[r].pc = "updateAnalysis"
    /\ analysis' = [analysis EXCEPT ![ret[r].job].by = RetryBy(r)]
    /\ ret' = [ret EXCEPT ![r].pc = "deleteSpotChecks"]
    /\ UNCHANGED <<apiKeySet, job, video, claims, spotChecks, sub, workerCalls, poll,
                 stage, dl, llm, mq, cap, wh, lang, gen>>

\* Lines 100-106: spotCheck.deleteMany for the claims of the Result.
RetryDeleteSpotChecks(r) ==
    /\ ret[r].pc = "deleteSpotChecks"
    /\ spotChecks' = spotChecks \ SpotChecksOf(ret[r].job)
    /\ ret' = [ret EXCEPT ![r].pc = "deleteClaims"]
    /\ UNCHANGED <<apiKeySet, job, video, analysis, claims, sub, workerCalls, poll,
                 stage, dl, llm, mq, cap, wh, lang, gen>>

\* Lines 107-115: claim.deleteMany for the Result (rejected while a spot check
\* still references one of the claims), then the claims loop is entered.
RetryDeleteClaims(r) ==
    /\ ret[r].pc = "deleteClaims"
    /\ IF SpotChecksOf(ret[r].job) # {}
       THEN /\ ret' = [ret EXCEPT ![r].pc = "catch"]
            /\ UNCHANGED claims
       ELSE /\ claims' = claims \ ClaimsOf(ret[r].job)
            /\ ret' = [ret EXCEPT ![r] =
                         IF ret[r].out = "noClaims"
                         THEN [@ EXCEPT !.pc = "catch"]
                         ELSE [@ EXCEPT !.pc = "createClaim", !.idx = 1]]
    /\ UNCHANGED <<apiKeySet, job, video, analysis, spotChecks, sub, workerCalls, poll,
                 stage, dl, llm, mq, cap, wh, lang, gen>>

\* Lines 115-122: claim.create for the current claim of the new output.
RetryCreateClaim(r) ==
    /\ ret[r].pc = "createClaim"
    /\ claims' = claims \cup {Row(ret[r].job, RetryBy(r), ret[r].idx)}
    /\ ret' = [ret EXCEPT ![r].pc = "createSpotCheck"]
    /\ UNCHANGED <<apiKeySet, job, video, analysis, spotChecks, sub, workerCalls, poll,
                 stage, dl, llm, mq, cap, wh, lang, gen>>

\* Lines 123-128: spotCheck.create for the claim just created.
RetryCreateSpotCheck(r) ==
    /\ ret[r].pc = "createSpotCheck"
    /\ IF Row(ret[r].job, RetryBy(r), ret[r].idx) \notin claims
       THEN /\ ret' = [ret EXCEPT ![r].pc = "catch"]
            /\ UNCHANGED spotChecks
       ELSE /\ spotChecks' = spotChecks \cup {Row(ret[r].job, RetryBy(r), ret[r].idx)}
            /\ ret' = [ret EXCEPT ![r] =
                         IF ret[r].idx < NumClaims
                         THEN [@ EXCEPT !.pc = "createClaim", !.idx = @ + 1]
                         ELSE [@ EXCEPT !.pc = "complete", !.idx = 0]]
    /\ UNCHANGED <<apiKeySet, job, video, analysis, claims, sub, workerCalls, poll,
                 stage, dl, llm, mq, cap, wh, lang, gen>>

\* Lines 131-143: job.update to COMPLETED, then the success response.
RetryComplete(r) ==
    /\ ret[r].pc = "complete"
    /\ job' = JobSetStatus(ret[r].job, "COMPLETED")
    /\ ret' = [ret EXCEPT ![r].pc = "done", ![r].resp = 200]
    /\ UNCHANGED <<apiKeySet, video, analysis, claims, spotChecks, sub, workerCalls, poll,
                 stage, dl, llm, mq, cap, wh, lang, gen>>

\* Lines 145-164: the catch block.  jobId is declared by const inside the try
\* block (line 11) and is not in scope here, so evaluating it at line 152
\* throws a ReferenceError inside the inner try; the inner catch logs it, no
\* store call is made, and 500 is answered.
RetryCatch(r) ==
    /\ ret[r].pc = "catch"
    /\ ret' = [ret EXCEPT ![r].pc = "done", ![r].resp = 500]
    /\ UNCHANGED <<apiKeySet, job, video, analysis, claims, spotChecks, sub, workerCalls, poll,
                 stage, dl, llm, mq, cap, wh, lang, gen>>

\* -------------------------------------------- Health: POST /api/jobs/health
\* An updateMany without the status filter.
MarkFailedAnyStatus(ids) ==
    /\ job' = [j \in JobIds |->
                 IF j \in ids /\ job[j].exists
                 THEN [job[j] EXCEPT !.status = "FAILED", !.errorMessage = MsgManual,
                                     !.runs = 0, !.lost = NoLoss]
                 ELSE job[j]]
    /\ UNCHANGED <<apiKeySet, video, analysis, claims, spotChecks, sub, ret, workerCalls, poll,
                 stage, dl, llm, mq, cap, wh, lang, gen>>

\* Lines 75-95: job.updateMany sets the listed RUNNING or PENDING jobs FAILED.
MarkFailed(ids) ==
    /\ job' = [j \in JobIds |->
                 IF j \in ids /\ job[j].exists /\ job[j].status \in {"RUNNING", "PENDING"}
                 THEN [job[j] EXCEPT !.status = "FAILED", !.errorMessage = MsgManual,
                                     !.runs = 0, !.lost = NoLoss]
                 ELSE job[j]]
    /\ UNCHANGED <<apiKeySet, video, analysis, claims, spotChecks, sub, ret, workerCalls, poll,
                 stage, dl, llm, mq, cap, wh, lang, gen>>

\* ------------------------------------------- Poll: GET /api/result/[jobId]
\* result/[jobId]/route.ts lines 10-29: job.findUnique with the Analysis, its
\* claims, spot checks and video included; an unknown id is answered 404.
PollFind(id) ==
    /\ poll.pc = "idle"
    /\ poll' = IF ~job[id].exists
               THEN [poll EXCEPT !.pc = "done", !.id = id, !.resp = 404]
               ELSE [poll EXCEPT !.pc = "video", !.id = id,
                       !.body = [status |-> job[id].status,
                                 errorMessage |-> job[id].errorMessage,
                                 videoUrl |-> job[id].videoUrl,
                                 result |-> Snapshot(id),
                                 transcript |-> RetryTranscript(id)]]
    /\ UNCHANGED <<apiKeySet, job, video, analysis, claims, spotChecks, sub, ret, workerCalls,
                 stage, dl, llm, mq, cap, wh, lang, gen>>

\* result/[jobId]/route.ts lines 37-81: video.findUnique by the job's url; the
\* transcript is the included video's, else the video record's; the Job row
\* with whatever Analysis was included is answered 200.
PollRespond ==
    /\ poll.pc = "video"
    /\ LET videoRecord == video[poll.body.videoUrl]
       IN  poll' = [poll EXCEPT !.pc = "done", !.resp = 200,
                      !.body.transcript =
                          IF Truthy(@) THEN @
                          ELSE IF videoRecord.exists /\ Truthy(videoRecord.transcript)
                          THEN videoRecord.transcript ELSE Null]
    /\ UNCHANGED <<apiKeySet, job, video, analysis, claims, spotChecks, sub, ret, workerCalls,
                 stage, dl, llm, mq, cap, wh, lang, gen>>

\* ------------------------------------------------- stages of a run, in time
\* The three revisions of the Submit handler's run: app/api/analyze/route.ts
\* ("first": captions, then Whisper), unnamed/part_012 ("optimized": metadata,
\* captions, fast transcription, Vercel-optimized Whisper) and
\* app/api/analyze/retry/route.ts lines 167-495 ("worker": metadata, remote
\* worker).  Times are in milliseconds, in steps of Tick.
Revisions == {"first", "optimized", "worker"}

Tick == 30 * 1000

\* retry/route.ts:247 and part_012:38  JOB_TIMEOUT_MS = 4.5 * 60 * 1000
JOB_TIMEOUT_MS == 270000

\* The delay given to the global timer's setTimeout.
GlobalTimeout(rev) == IF rev = "first" THEN 10 * 60 * 1000 ELSE JOB_TIMEOUT_MS

\* The delay of the timer a stage is raced against (0: the stage is not raced).
StageTimeout(rev, st) ==
    CASE st = "captions" -> 30000
      [] st = "whisper" -> 8 * 60 * 1000
      [] st = "fast" -> 3 * 60 * 1000
      [] st = "vercel" -> 4 * 60 * 1000
      [] st = "worker" -> 5 * 60 * 1000
      [] st = "analysis" -> 2 * 60 * 1000
      [] OTHER -> 0

\* The transcript strategies of a revision, in the order of the code.
Chain(rev) ==
    CASE rev = "first" -> <<"captions", "whisper">>
      [] rev = "optimized" -> <<"captions", "fast", "vercel">>
      [] OTHER -> <<"worker">>

\* The stages of a revision that are raced against a timer.
TimedStages(rev) == {Chain(rev)[k] : k \in DOMAIN Chain(rev)} \cup {"analysis"}

\* What a stage can come back with before its timer: fetchCaptions returns the
\* text or null and never throws; a transcription returns a text (possibly
\* empty) or throws; the analysis returns or throws.
StageResults(st) ==
    CASE st = "metadata" -> {"ok"}
      [] st = "captions" -> {"text", "none"}
      [] st = "analysis" -> {"ok", "threw"}
      [] OTHER -> {"text", "empty", "threw"}

\* How long a stage can take: no time, one Tick, or up to its timer.
StageDurations(rev, st) ==
    IF StageTimeout(rev, st) = 0 THEN {0, Tick}
    ELSE {d \in {0, Tick, StageTimeout(rev, st)} : d <= StageTimeout(rev, st)}

\* The statement the run continues with after a stage came back with r.
NextStage(rev, st, r) ==
    CASE st = "metadata" -> IF rev = "optimized" THEN "captions" ELSE "worker"
      [] st = "captions" ->
           IF r = "timeout" THEN "failed"
           ELSE IF r = "text" THEN "analysis"
           ELSE IF rev = "first" THEN "whisper" ELSE "fast"
      [] st = "fast" -> IF r \in {"threw", "timeout"} THEN "vercel" ELSE "analysis"
      [] st = "analysis" -> IF r = "ok" THEN "persist" ELSE "failed"
      [] OTHER -> IF r \in {"threw", "timeout"} THEN "failed" ELSE "analysis"

\* The run sets RUNNING and arms the global timer; the first stage starts.
StageArm(rev) ==
    /\ stage.pc = "idle"
    /\ stage' = [stage EXCEPT !.rev = rev, !.now = 0,
                              !.pc = IF rev = "first" THEN "captions" ELSE "metadata"]
    /\ UNCHANGED <<pipeline, dl, llm, mq, cap, wh, lang, gen>>

\* The stage in progress takes d and comes back with r, or its timer rejects
\* the race once the full delay has passed.
StageRun(d, r) ==
    /\ stage.pc \notin {"idle", "persist", "failed"}
    /\ d \in StageDurations(stage.rev, stage.pc)
    /\ IF StageTimeout(stage.rev, stage.pc) # 0 /\ d = StageTimeout(stage.rev, stage.pc)
       THEN r = "timeout"
       ELSE r \in StageResults(stage.pc)
    /\ stage' = [stage EXCEPT
                   !.now = @ + d,
                   !.results = Append(@, [stage |-> stage.pc, result |-> r]),
                   !.pc = NextStage(stage.rev, stage.pc, r),
                   !.err = IF NextStage(stage.rev, stage.pc, r) = "failed"
                           THEN stage.pc ELSE @]
    /\ UNCHANGED <<pipeline, dl, llm, mq, cap, wh, lang, gen>>

\* ------------------------------- downloadYouTubeAudio (transcripts/shared.ts)
\* Lines 206-222: fallbackFormatOptions.
fallbackFormatOptions ==
    << "worstaudio", "bestaudio[filesize<10M]", "bestaudio[filesize<15M]",
       "bestaudio[filesize<20M]", "bestaudio[ext=m4a][filesize<10M]",
       "bestaudio[ext=mp3][filesize<10M]", "bestaudio[ext=m4a][filesize<15M]",
       "bestaudio[ext=mp3][filesize<15M]", "bestaudio[ext=m4a][filesize<20M]",
       "bestaudio[ext=mp3][filesize<20M]", "bestaudio", "best[filesize<10M]",
       "best[filesize<15M]", "best[filesize<20M]", "best" >>

\* What getBestAudioFormat (lines 80-136) returns: a format id, or null when
\* nothing fits or the discovery fails; it never throws.
DiscoveredFormats == {"140", Null}

MsgVideoTooLarge == "Video too large: No audio format available under 20MB limit"
MsgAllFailed == "All download attempts failed. Last error: "

\* Errors of one download attempt (lines 255-276).
DownloadErrors == {"Download timeout", "File too large during download",
                   "Downloaded file too large", "ERROR: format not available"}

\* Lines 188-227: format discovery; a null format is rethrown as too large,
\* otherwise the discovered format is put in front of the fallback options.
DlDiscover(f) ==
    /\ dl.pc = "idle"
    /\ dl' = IF f = Null
             THEN [dl EXCEPT !.pc = "thrown", !.thrown = <<MsgVideoTooLarge, Null>>]
             ELSE [dl EXCEPT !.pc = "try", !.i = 1,
                             !.formats = <<f>> \o fallbackFormatOptions]
    /\ UNCHANGED <<pipeline, stage, llm, mq, cap, wh, lang, gen>>

\* An attempt loop that keeps the first error instead of the latest.
DlAttemptFailsKeepFirst(e) ==
    /\ dl.pc = "try"
    /\ LET tried == Append(dl.tried, dl.formats[dl.i])
           err == IF dl.lastError = Null THEN e ELSE dl.lastError
       IN  dl' = IF dl.i < Len(dl.formats)
                 THEN [dl EXCEPT !.tried = tried, !.lastError = err, !.i = @ + 1,
                                 !.attemptError = e]
                 ELSE [dl EXCEPT !.tried = tried, !.lastError = err, !.attemptError = e,
                                 !.pc = "thrown", !.thrown = <<MsgAllFailed, err>>]
    /\ UNCHANGED <<pipeline, stage, llm, mq, cap, wh, lang, gen>>

\* Lines 229-283: the download with the current format succeeds and the
\* function returns.
DlAttemptSucceeds ==
    /\ dl.pc = "try"
    /\ dl' = [dl EXCEPT !.tried = Append(@, dl.formats[dl.i]),
                        !.result = dl.formats[dl.i], !.pc = "returned"]
    /\ UNCHANGED <<pipeline, stage, llm, mq, cap, wh, lang, gen>>

\* Lines 285-306: the attempt fails with e, which becomes lastError; the loop
\* goes on with the next format, and after the last one the function throws.
\* attemptError is bookkeeping of the model: the error of the latest attempt.
DlAttemptFails(e) ==
    /\ dl.pc = "try"
    /\ LET tried == Append(dl.tried, dl.formats[dl.i])
       IN  dl' = IF dl.i < Len(dl.formats)
                 THEN [dl EXCEPT !.tried = tried, !.lastError = e, !.i = @ + 1,
                                 !.attemptError = e]
                 ELSE [dl EXCEPT !.tried = tried, !.lastError = e, !.attemptError = e,
                                 !.pc = "thrown", !.thrown = <<MsgAllFailed, e>>]
    /\ UNCHANGED <<pipeline, stage, llm, mq, cap, wh, lang, gen>>

\* shared.ts 144: the default ceiling of 20 MB.
maxSizeBytes == 20 * 1024 * 1024

ReportedTotals == {0, maxSizeBytes, maxSizeBytes + 1}
FileSizes == {maxSizeBytes - 1, maxSizeBytes, maxSizeBytes + 1}
\* How the race of the download against its 20 s timer ends.
RaceEnds == {"downloaded", "timeout", "error"}

\* An attempt that returns without looking at the size of the file.
AttemptErrorNoStat(total, size, raced) ==
    IF total # 0 /\ total > maxSizeBytes THEN "File too large during download"
    ELSE IF raced = "timeout" THEN "Download timeout"
    ELSE IF raced = "error" THEN "ERROR: format not available"
    ELSE Null

\* shared.ts 241-276: the error one attempt throws, Null when it returns. A
\* reported total above the ceiling rejects the download promise and sets
\* downloadCancelled; a finished download is measured with stat.
AttemptError(total, size, raced) ==
    IF total # 0 /\ total > maxSizeBytes THEN "File too large during download"
    ELSE IF raced = "timeout" THEN "Download timeout"
    ELSE IF raced = "error" THEN "ERROR: format not available"
    ELSE IF size > maxSizeBytes THEN "Downloaded file too large"
    ELSE Null

\* shared.ts 229-306: one pass of the format loop with what the download met.
DlAttempt(total, size, raced) ==
    /\ dl.pc = "try"
    /\ LET e == AttemptError(total, size, raced)
           tried == Append(dl.tried, dl.formats[dl.i])
           met == [total |-> total, size |-> size, raced |-> raced]
       IN  dl' = IF e = Null
                 THEN [dl EXCEPT !.tried = tried, !.last = met, !.attemptError = Null,
                                 !.result = dl.formats[dl.i], !.fileSize = size,
                                 !.pc = "returned"]
                 ELSE IF dl.i < Len(dl.formats)
                 THEN [dl EXCEPT !.tried = tried, !.last = met, !.lastError = e,
                                 !.attemptError = e, !.i = @ + 1]
                 ELSE [dl EXCEPT !.tried = tried, !.last = met, !.lastError = e,
                                 !.attemptError = e,
                                 !.pc = "thrown", !.thrown = <<MsgAllFailed, e>>]
    /\ UNCHANGED <<pipeline, stage, llm, mq, cap, wh, lang, gen>>

\* ----------------------------------------- analyzeTranscript (analyze/index.ts)
\* Language codes detectLanguage reports (lib/language-detection.ts).
LanguageCodes == {"en", "de", "ja", "vi"}

PrimaryModel == "gpt-4o-mini"
AlternateModel == "gpt-3.5-turbo"

\* Keys of AnalysisOutput that the LLM is asked for (lines 61-74).
OutputKeys == {"oneLiner", "bulletPoints", "outline", "trustScore", "trustSignals", "claims"}

\* Message contents the LLM can answer with: the full object, objects that
\* lack a key, no content (read as "{}"), and text that is not JSON.
Contents ==
    {[json |-> TRUE, keys |-> OutputKeys],
     [json |-> TRUE, keys |-> OutputKeys \ {"trustScore"}],
     [json |-> TRUE, keys |-> OutputKeys \ {"claims"}],
     [json |-> TRUE, keys |-> {}],
     [json |-> FALSE, keys |-> {}]}

\* Errors of openai.chat.completions.create, by status and code.
QuotaExceeded == [status |-> 429, code |-> "insufficient_quota"]
ApiErrors ==
    {QuotaExceeded, [status |-> 429, code |-> "rate_limit_exceeded"],
     [status |-> 401, code |-> Null], [status |-> 500, code |-> Null],
     [status |-> 503, code |-> Null], [status |-> 0, code |-> Null]}

\* Lines 125-148: the message of the error analyzeTranscript throws.
ApiErrorMessage(e) ==
    CASE e.status = 429 /\ e.code = "insufficient_quota" -> "OpenAI API quota exceeded"
      [] e.status = 429 -> "OpenAI API rate limit exceeded"
      [] e.status = 401 -> "OpenAI API authentication failed"
      [] e.status = 500 -> "OpenAI API server error"
      [] e.status = 503 -> "OpenAI API service temporarily unavailable"
      [] OTHER -> "OpenAI API error"

\* Lines 76-85: detectLanguage and the prompts.
LlmStart(lc) ==
    /\ llm.pc = "idle"
    /\ llm' = [llm EXCEPT !.pc = "primary", !.languageCode = lc]
    /\ UNCHANGED <<pipeline, stage, dl, mq, cap, wh, lang, gen>>

\* Lines 91-99: the primary model answers.
LlmPrimaryAnswers(c) ==
    /\ llm.pc = "primary"
    /\ llm' = [llm EXCEPT !.pc = "parse", !.calls = Append(@, PrimaryModel), !.content = c]
    /\ UNCHANGED <<pipeline, stage, dl, mq, cap, wh, lang, gen>>

\* A fallback taken on every 429, rate limits included.
LlmPrimaryFailsAny429(e) ==
    /\ llm.pc = "primary"
    /\ llm' = IF e.status = 429
              THEN [llm EXCEPT !.pc = "fallback", !.calls = Append(@, PrimaryModel),
                               !.error = e]
              ELSE [llm EXCEPT !.pc = "thrown", !.calls = Append(@, PrimaryModel),
                               !.error = e, !.thrown = ApiErrorMessage(e)]
    /\ UNCHANGED <<pipeline, stage, dl, mq, cap, wh, lang, gen>>

\* Lines 100-115 and 125-148: the primary call fails; quota-exceeded leads to
\* the alternate model, any other error is rethrown and mapped.
LlmPrimaryFails(e) ==
    /\ llm.pc = "primary"
    /\ llm' = IF e.status = 429 /\ e.code = "insufficient_quota"
              THEN [llm EXCEPT !.pc = "fallback", !.calls = Append(@, PrimaryModel),
                               !.error = e]
              ELSE [llm EXCEPT !.pc = "thrown", !.calls = Append(@, PrimaryModel),
                               !.error = e, !.thrown = ApiErrorMessage(e)]
    /\ UNCHANGED <<pipeline, stage, dl, mq, cap, wh, lang, gen>>

\* Lines 103-111: the alternate model answers.
LlmAlternateAnswers(c) ==
    /\ llm.pc = "fallback"
    /\ llm' = [llm EXCEPT !.pc = "parse", !.calls = Append(@, AlternateModel), !.content = c]
    /\ UNCHANGED <<pipeline, stage, dl, mq, cap, wh, lang, gen>>

\* Lines 103-111 and 125-148: the alternate call fails; its error is mapped.
LlmAlternateFails(e) ==
    /\ llm.pc = "fallback"
    /\ llm' = [llm EXCEPT !.pc = "thrown", !.calls = Append(@, AlternateModel),
                          !.fallbackError = e, !.thrown = ApiErrorMessage(e)]
    /\ UNCHANGED <<pipeline, stage, dl, mq, cap, wh, lang, gen>>

\* Lines 116-124: JSON.parse of the content and the returned object, which is
\* the parsed object with language and languageCode added; text that is not
\* JSON throws into the error mapping.
LlmParse ==
    /\ llm.pc = "parse"
    /\ llm' = IF llm.content.json
              THEN [llm EXCEPT !.pc = "returned",
                      !.result = [keys |-> llm.content.keys \cup {"language", "languageCode"},
                                  languageCode |-> llm.languageCode]]
              ELSE [llm EXCEPT !.pc = "thrown", !.thrown = "OpenAI API error"]
    /\ UNCHANGED <<pipeline, stage, dl, mq, cap, wh, lang, gen>>

\* ------------------------------------------------------------ fetchCaptions
\* part_018 263-264.
maxRetries == 3
retryDelay == 1000

CaptionUrls == {UrlWatch, UrlShort, UrlChannel}
\* What one fetchTranscript raced against its 15 s timer gives: a track with
\* entries, an empty track, a rejection (of the request, or because captions
\* are disabled), or the timer's rejection.
FetchFailures == {"rejected", "disabled", "timeout"}
FetchOutcomes == {"track", "empty"} \cup FetchFailures

\* part_018 266-271: without a video id null is returned and nothing is fetched.
CapStart(u) ==
    /\ cap.pc = "idle"
    /\ cap' = IF extractVideoId(u) = 0
              THEN [cap EXCEPT !.pc = "done", !.url = u, !.result = Null]
              ELSE [cap EXCEPT !.pc = "fetch", !.url = u, !.attempt = 1]
    /\ UNCHANGED <<pipeline, stage, dl, llm, mq, wh, lang, gen>>

\* A fetch whose last failure is rethrown.
CapFetchRethrows(o) ==
    /\ cap.pc = "fetch"
    /\ cap' = [cap EXCEPT
                 !.log = Append(@, o),
                 !.result = IF o = "track" THEN "text" ELSE Null,
                 !.thrown = o \in FetchFailures /\ cap.attempt = maxRetries,
                 !.pc = IF o \in FetchFailures /\ cap.attempt < maxRetries
                        THEN "wait" ELSE "done"]
    /\ UNCHANGED <<pipeline, stage, dl, llm, mq, wh, lang, gen>>

\* part_018 276-303: one pass of the loop up to its return or its catch; the
\* catch returns null on the last attempt.
CapFetch(o) ==
    /\ cap.pc = "fetch"
    /\ cap' = [cap EXCEPT
                 !.log = Append(@, o),
                 !.result = IF o = "track" THEN "text" ELSE Null,
                 !.pc = IF o \in FetchFailures /\ cap.attempt < maxRetries
                        THEN "wait" ELSE "done"]
    /\ UNCHANGED <<pipeline, stage, dl, llm, mq, wh, lang, gen>>

\* part_018 305-307: the pause of retryDelay * attempt, then the next pass.
CapWait ==
    /\ cap.pc = "wait"
    /\ cap' = [cap EXCEPT !.waited = Append(@, retryDelay * cap.attempt),
                           !.attempt = @ + 1, !.pc = "fetch"]
    /\ UNCHANGED <<pipeline, stage, dl, llm, mq, wh, lang, gen>>

\* ------------------------------------------------------------ chunked transcription
ChunkFns == {"transcribeWithWhisper", "transcribeForVercel"}
MsgChunkTimeout == "Chunk processing timeout"
MsgChunkFailed == "chunk transcription failed"

\* The text Whisper gives for the chunk with index i.
ChunkText(i) == <<"text", i>>

Range(q) == {q[k] : k \in DOMAIN q}

\* whisper.ts 251-256, 553-559: the segment files part-000.mp3, part-001.mp3, ...
\* listed and sorted by name.
WhSplit(fn, n) ==
    /\ wh.pc = "idle"
    /\ wh' = [wh EXCEPT !.pc = "chunks", !.fn = fn, !.files = [k \in 1..n |-> k - 1]]
    /\ UNCHANGED <<pipeline, stage, dl, llm, mq, cap, lang, gen>>

\* whisper.ts 260-275, 563-575: the transcription of one chunk fulfils.
WhChunkDone(i) ==
    /\ wh.pc \in {"chunks", "done"}
    /\ i \in Range(wh.files) \ Range(wh.settled)
    /\ wh' = [wh EXCEPT !.settled = Append(@, i)]
    /\ UNCHANGED <<pipeline, stage, dl, llm, mq, cap, lang, gen>>

\* whisper.ts 263-265, 268, 565: the transcription of one chunk rejects.
WhChunkFails(i) ==
    /\ wh.pc \in {"chunks", "done"}
    /\ i \in Range(wh.files) \ Range(wh.settled)
    /\ wh' = [wh EXCEPT !.settled = Append(@, i), !.rejected = @ \cup {i}]
    /\ UNCHANGED <<pipeline, stage, dl, llm, mq, cap, lang, gen>>

\* whisper.ts 277, 578-583: Promise.all rejects with the first rejection.
WhReject ==
    /\ wh.pc = "chunks"
    /\ wh.rejected # {}
    /\ wh' = [wh EXCEPT !.pc = "done", !.thrown = MsgChunkFailed]
    /\ UNCHANGED <<pipeline, stage, dl, llm, mq, cap, lang, gen>>

\* whisper.ts 578-583: the 3-minute timer of transcribeForVercel wins the race.
WhTimeout ==
    /\ wh.pc = "chunks"
    /\ wh.fn = "transcribeForVercel"
    /\ wh' = [wh EXCEPT !.pc = "done", !.thrown = MsgChunkTimeout]
    /\ UNCHANGED <<pipeline, stage, dl, llm, mq, cap, lang, gen>>

\* Promise.all: the results in the order of the promises, not of settlement.
ChunkResults == [k \in DOMAIN wh.files |-> [index |-> wh.files[k], text |-> ChunkText(wh.files[k])]]

\* Array.prototype.sort((a, b) => a.index - b.index) of distinct indices.
SortByIndex(q) ==
    [k \in DOMAIN q |->
        CHOOSE r \in Range(q) : Cardinality({x \in Range(q) : x.index < r.index}) = k - 1]

\* A join of the texts in the order the chunks settled.
WhJoinSettledOrder ==
    /\ wh.pc = "chunks"
    /\ wh.rejected = {}
    /\ Range(wh.settled) = Range(wh.files)
    /\ wh' = [wh EXCEPT !.pc = "done",
                         !.result = [k \in DOMAIN wh.settled |-> ChunkText(wh.settled[k])]]
    /\ UNCHANGED <<pipeline, stage, dl, llm, mq, cap, lang, gen>>

\* whisper.ts 277-287, 578-593: every chunk fulfilled; the results are sorted
\* by index and their texts joined.
WhJoin ==
    /\ wh.pc = "chunks"
    /\ wh.rejected = {}
    /\ Range(wh.settled) = Range(wh.files)
    /\ wh' = [wh EXCEPT !.pc = "done",
                         !.result = LET sorted == SortByIndex(ChunkResults)
                                    IN  [k \in DOMAIN sorted |-> sorted[k].text]]
    /\ UNCHANGED <<pipeline, stage, dl, llm, mq, cap, lang, gen>>

\* ------------------------------------------------------------ language detection
\* Characters a text may hold, one for each way the patterns of
\* language-detection.ts 19-33 overlap (named, since the module is ASCII).
Marks ==
    {"a-dot-below", "a-tilde", "a-circumflex", "n-tilde", "a-acute", "e-acute", "i-acute",
     "u-diaeresis", "c-cedilla", "a-grave", "a-diaeresis", "eszett", "o-grave",
     "cyrillic", "han", "kana", "hangul", "arabic", "devanagari"}

\* language-detection.ts 19-33: the characters of Marks each pattern matches.
languagePatterns(language) ==
    CASE language = "Vietnamese" -> {"a-dot-below", "a-tilde", "a-circumflex"}
      [] language = "Spanish" -> {"n-tilde", "a-acute", "e-acute", "i-acute", "u-diaeresis"}
      [] language = "French" -> {"a-grave", "a-circumflex", "a-diaeresis", "e-acute",
                                 "u-diaeresis", "c-cedilla"}
      [] language = "German" -> {"a-diaeresis", "u-diaeresis", "eszett"}
      [] language = "Italian" -> {"a-grave", "e-acute", "i-acute", "o-grave"}
      [] language = "Portuguese" -> {"a-tilde", "c-cedilla"}
      [] language = "Russian" -> {"cyrillic"}
      [] language = "Chinese" -> {"han"}
      [] language = "Japanese" -> {"kana"}
      [] language = "Korean" -> {"hangul"}
      [] language = "Arabic" -> {"arabic"}
      [] language = "Hindi" -> {"devanagari"}

\* language-detection.ts 36-76: the order in which the patterns are tested.
DetectionOrder ==
    <<"Vietnamese", "Chinese", "Japanese", "Korean", "Arabic", "Hindi", "Russian",
      "Spanish", "French", "German", "Italian", "Portuguese">>

\* language-detection.ts 8-82: the first language whose pattern matches the
\* text, English when none does.
detectLanguage(text) ==
    LET hits == {k \in DOMAIN DetectionOrder : languagePatterns(DetectionOrder[k]) \cap text # {}}
    IN  IF hits = {} THEN "English"
        ELSE DetectionOrder[CHOOSE k \in hits : \A m \in hits : k <= m]

\* language-detection.ts 97-126: the languages that have an instruction template.
languageInstructions ==
    {"Spanish", "French", "German", "Chinese", "Japanese", "Korean", "Vietnamese"}

\* language-detection.ts 84-127: the language of the template returned.
getLanguageSpecificPrompts(language) ==
    IF language = "English" THEN "English"
    ELSE IF language \in languageInstructions THEN language
    ELSE "Spanish"

LangDetect(text) ==
    /\ lang.pc = "idle"
    /\ lang' = [lang EXCEPT !.pc = "detected", !.text = text,
                            !.language = detectLanguage(text)]
    /\ UNCHANGED <<pipeline, stage, dl, llm, mq, cap, wh, gen>>

LangPrompts ==
    /\ lang.pc = "detected"
    /\ lang' = [lang EXCEPT !.pc = "prompted",
                            !.template = getLanguageSpecificPrompts(lang.language)]
    /\ UNCHANGED <<pipeline, stage, dl, llm, mq, cap, wh, gen>>

\* ------------------------------------------------------------ generateJobId
JobIdUrls == Urls \cup {UrlEmbed}

\* lib/utils.ts 31-39: one call; the k-th call draws the k-th random UUID.
GenerateCall(u) ==
    /\ Len(gen) < MaxCalls
    /\ gen' = Append(gen, [url |-> u, id |-> generateJobId(u, Len(gen) + 1)])
    /\ UNCHANGED <<pipeline, stage, dl, llm, mq, cap, wh, lang>>

\* ------------------------------------------------------------ memory queue
\* queue.ts 35-37: the status of the entry, PENDING when there is none.
getStatus(jobs, id) == IF jobs[id] = "ABSENT" THEN "PENDING" ELSE jobs[id]

\* queue.ts 39-42: only an existing entry is changed.
setRunning(jobs, id) ==
    [jobs EXCEPT ![id] = IF @ = "ABSENT" THEN @ ELSE "RUNNING"]

\* queue.ts 44-46: the entry is set, created when missing.
setCompleted(jobs, id) == [jobs EXCEPT ![id] = "COMPLETED"]

\* queue.ts 48-51: only an existing entry is changed.
setFailed(jobs, id) ==
    [jobs EXCEPT ![id] = IF @ = "ABSENT" THEN @ ELSE "FAILED"]

\* retry/route.ts 232-246, 488 with queue.ts 24-29: Submit for a job that is
\* absent or FAILED upserts it to PENDING, starts the run, and enqueue stores a
\* PENDING entry under a random id of its own.
QueueStart(r, id) ==
    /\ mq.run[r].pc = "idle"
    /\ mq.store[id] \in {"NONE", "FAILED"}
    /\ mq' = [mq EXCEPT !.run[r] = [pc |-> "started", id |-> id],
                         !.store[id] = "PENDING",
                         !.uuids = @ + 1]
    /\ UNCHANGED <<pipeline, stage, dl, llm, cap, wh, lang, gen>>

\* retry/route.ts 256-257: job.update to RUNNING, then setRunning(job.id).
QueueSetRunning(r) ==
    /\ mq.run[r].pc = "started"
    /\ mq' = [mq EXCEPT !.run[r].pc = "running",
                         !.store[mq.run[r].id] = "RUNNING",
                         !.jobs = setRunning(@, mq.run[r].id)]
    /\ UNCHANGED <<pipeline, stage, dl, llm, cap, wh, lang, gen>>

\* retry/route.ts 260-268: the timer's job.update to FAILED, then
\* setFailed(job.id); the run goes on.
QueueTimeout(r) ==
    /\ mq.run[r].pc = "running"
    /\ mq' = [mq EXCEPT !.run[r].pc = "late",
                         !.store[mq.run[r].id] = "FAILED",
                         !.jobs = setFailed(@, mq.run[r].id)]
    /\ UNCHANGED <<pipeline, stage, dl, llm, cap, wh, lang, gen>>

\* retry/route.ts 439-440 and 479-480 (also 285-292): the run's last write,
\* COMPLETED with setCompleted(job.id, analysis) or FAILED with setFailed(job.id).
QueueEnd(r, status) ==
    /\ mq.run[r].pc \in {"running", "late"}
    /\ mq' = [mq EXCEPT !.run[r].pc = "done",
                         !.store[mq.run[r].id] = status,
                         !.jobs = IF status = "COMPLETED"
                                  THEN setCompleted(@, mq.run[r].id)
                                  ELSE setFailed(@, mq.run[r].id)]
    /\ UNCHANGED <<pipeline, stage, dl, llm, cap, wh, lang, gen>>

\* ------------------------------------------------------------ specification
RequestInputs == RequestUrls \cup {UrlOther, UrlNumber, NoUrl}
RetryInputs == JobIds \cup {NoJobId}
\* jobIds lists sent to mark_failed: empty, one job, every job.
MarkFailedInputs == {{}, {VidJob(1)}, JobIds}

SubmitStep(h) ==
    \/ \E u \in RequestInputs : SubmitReject(h, u)
    \/ \E u \in RequestInputs : SubmitLookup(h, u)
    \/ SubmitFindVideo(h)
    \/ SubmitUpsert(h)

RunStep(h) ==
    \/ RunSetRunning(h)
    \/ RunMetadata(h)
    \/ RunDurationReject(h)
    \/ RunReuseTranscript(h)
    \/ RunAcquireTranscript(h)
    \/ RunAnalysis(h)
    \/ RunUpsertVideo(h)
    \/ RunCreateAnalysis(h)
    \/ RunCreateClaim(h)
    \/ RunCreateSpotCheck(h)
    \/ RunComplete(h)
    \/ RunCatchSave(h)
    \/ RunCatchFail(h)

RetryStep(r) ==
    \/ \E id \in RetryInputs : RetryLookup(r, id)
    \/ RetrySetRunning(r)
    \/ RetryAnalyze(r)
    \/ RetryUpdateAnalysis(r)
    \/ RetryDeleteSpotChecks(r)
    \/ RetryDeleteClaims(r)
    \/ RetryCreateClaim(r)
    \/ RetryCreateSpotCheck(r)
    \/ RetryComplete(r)
    \/ RetryCatch(r)

\* Submissions, their pipeline runs and timers, and the health endpoint.
Next ==
    \/ \E h \in SubmitIds : SubmitStep(h)
    \/ \E h \in SubmitIds : RunStep(h)
    \/ \E h \in SubmitIds : TimerFire(h)
    \/ \E ids \in MarkFailedInputs : MarkFailed(ids)

Spec == Init /\ [][Next]_vars

\* The state a first successful run of UrlWatch leaves behind: the job
\* COMPLETED with its Result, one claim set and the transcript cached.
CompletedRun ==
    [pc |-> "done", url |-> UrlWatch, job |-> VidJob(1), existingVideo |-> Null,
     transcript |-> "t1", timer |-> "cleared", err |-> Null, out |-> "full",
     idx |-> 0, resp |-> 202, termWrites |-> 1,
     called |-> {"metadata", "worker", "analysis"}, long |-> FALSE,
     found |-> "ABSENT"]

InitRetry ==
    /\ apiKeySet = TRUE
    /\ job = [j \in JobIds |->
                IF j = VidJob(1)
                THEN [exists |-> TRUE, status |-> "COMPLETED", errorMessage |-> Null,
                      videoUrl |-> UrlWatch, runs |-> 1, lost |-> NoLoss]
                ELSE NoJob]
    /\ video = [u \in Urls |-> IF u = UrlWatch THEN [exists |-> TRUE, transcript |-> "t1"]
                                ELSE NoVideo]
    /\ analysis = [j \in JobIds |->
                IF j = VidJob(1)
                THEN [exists |-> TRUE, by |-> RunBy(1), videoUrl |-> UrlWatch]
                ELSE NoAnalysis]
    /\ claims = {Row(VidJob(1), RunBy(1), i) : i \in ClaimIdx}
    /\ spotChecks = {Row(VidJob(1), RunBy(1), i) : i \in ClaimIdx}
    /\ sub = [h \in SubmitIds |-> IF h = 1 THEN CompletedRun ELSE IdleSub]
    /\ ret = [r \in RetryIds |-> IdleRet]
    /\ workerCalls = 1
    /\ poll = IdlePoll
    /\ stage = IdleStage
    /\ dl = IdleDl
    /\ llm = IdleLlm
    /\ mq = IdleMq
    /\ cap = IdleCap
    /\ wh = IdleWh
    /\ lang = IdleLang
    /\ gen = <<>>

\* Retries of a completed job, and the health endpoint.
NextRetry ==
    \/ \E r \in RetryIds : RetryStep(r)
    \/ \E ids \in MarkFailedInputs : MarkFailed(ids)

SpecRetry == InitRetry /\ [][NextRetry]_vars

\* Job ids a client polls: the completed job and an id that was never created.
PollInputs == {VidJob(1), UuidJob(1)}

PollStep ==
    \/ \E id \in PollInputs : PollFind(id)
    \/ PollRespond

\* Retries of a completed job, the health endpoint and one Poll.
NextPoll ==
    \/ NextRetry
    \/ PollStep

SpecPoll == InitRetry /\ [][NextPoll]_vars

\* Submissions and runs whose persistence writes and transcript save may fail.
NextFaults ==
    \/ Next
    \/ \E h \in SubmitIds : RunPersistFail(h)
    \/ \E h \in SubmitIds : RunCatchSaveFail(h)

SpecFaults == Init /\ [][NextFaults]_vars

\* The steps of a run that are store writes or local: each returns once it is
\* enabled. The adapter calls (RunMetadata, RunAcquireTranscript, RunAnalysis)
\* are left out: an adapter may never return.
RunWrite(h) ==
    \/ RunSetRunning(h)
    \/ RunDurationReject(h)
    \/ RunReuseTranscript(h)
    \/ RunUpsertVideo(h)
    \/ RunCreateAnalysis(h)
    \/ RunCreateClaim(h)
    \/ RunCreateSpotCheck(h)
    \/ RunComplete(h)
    \/ RunCatchSave(h)
    \/ RunCatchFail(h)

\* The process stays alive: an armed timer fires and a detached run goes on.
Fairness ==
    \A h \in SubmitIds : WF_vars(TimerFire(h)) /\ WF_vars(RunWrite(h))

SpecLive == Init /\ [][Next]_vars /\ Fairness

\* Submissions and runs where the enqueue request of the queue backend may fail.
NextEnqueue ==
    \/ Next
    \/ \E h \in SubmitIds : SubmitEnqueueFails(h)

SpecEnqueue == Init /\ [][NextEnqueue]_vars

\* Adapters and single runs are followed with the pipeline at rest.
InitAdapters == Init /\ apiKeySet

AllDurations == {0, Tick} \cup {StageTimeout("first", st) : st \in {"captions", "whisper",
                                   "fast", "vercel", "worker", "analysis"}}
AllResults == {"ok", "text", "none", "empty", "threw", "timeout"}

\* One run of one revision, stage by stage.
NextStages ==
    \/ \E rev \in Revisions : StageArm(rev)
    \/ \E d \in AllDurations : \E r \in AllResults : StageRun(d, r)

SpecStages == InitAdapters /\ [][NextStages]_vars

\* One call of downloadYouTubeAudio.
NextDownload ==
    \/ \E f \in DiscoveredFormats : DlDiscover(f)
    \/ DlAttemptSucceeds
    \/ \E e \in DownloadErrors : DlAttemptFails(e)

SpecDownload == InitAdapters /\ [][NextDownload]_vars

\* One call of downloadYouTubeAudio with the sizes its downloads meet.
NextDownloadSize ==
    \/ \E f \in DiscoveredFormats : DlDiscover(f)
    \/ \E total \in ReportedTotals : \E size \in FileSizes : \E raced \in RaceEnds :
         DlAttempt(total, size, raced)

SpecDownloadSize == InitAdapters /\ [][NextDownloadSize]_vars

\* One call of analyzeTranscript.
NextLlm ==
    \/ \E lc \in LanguageCodes : LlmStart(lc)
    \/ \E c \in Contents : LlmPrimaryAnswers(c)
    \/ \E e \in ApiErrors : LlmPrimaryFails(e)
    \/ \E c \in Contents : LlmAlternateAnswers(c)
    \/ \E e \in ApiErrors : LlmAlternateFails(e)
    \/ LlmParse

SpecLlm == InitAdapters /\ [][NextLlm]_vars

\* One call of fetchCaptions.
NextCaptions ==
    \/ \E u \in CaptionUrls : CapStart(u)
    \/ \E o \in FetchOutcomes : CapFetch(o)
    \/ CapWait

SpecCaptions == InitAdapters /\ [][NextCaptions]_vars

\* One transcription of audio split into chunks.
NextChunks ==
    \/ \E fn \in ChunkFns : \E n \in 1..MaxChunks : WhSplit(fn, n)
    \/ \E i \in 0..(MaxChunks - 1) : WhChunkDone(i)
    \/ \E i \in 0..(MaxChunks - 1) : WhChunkFails(i)
    \/ WhReject
    \/ WhTimeout
    \/ WhJoin

SpecChunks == InitAdapters /\ [][NextChunks]_vars

\* Texts with at most MaxMarks marked characters among plain Latin ones.
Texts == {t \in SUBSET Marks : Cardinality(t) <= MaxMarks}

\* One language detection followed by the choice of the prompts.
NextLang ==
    \/ \E text \in Texts : LangDetect(text)
    \/ LangPrompts

SpecLang == InitAdapters /\ [][NextLang]_vars

\* Calls of generateJobId.
NextJobId == \E u \in JobIdUrls : GenerateCall(u)

SpecJobId == InitAdapters /\ [][NextJobId]_vars

\* The in-process runner and the memory queue.
NextQueue ==
    \/ \E r \in QueueRuns : \E id \in RunnerJobs : QueueStart(r, id)
    \/ \E r \in QueueRuns : QueueSetRunning(r)
    \/ \E r \in QueueRuns : QueueTimeout(r)
    \/ \E r \in QueueRuns : \E status \in {"COMPLETED", "FAILED"} : QueueEnd(r, status)

SpecQueue == InitAdapters /\ [][NextQueue]_vars

\* Submissions, runs, timers, the health endpoint and Retry requests together.
NextAll ==
    \/ Next
    \/ \E r \in MixedRetryIds : RetryStep(r)

SpecAll == Init /\ [][NextAll]_vars

\* ================================================================== claims
Answered(h) == sub[h].resp \in {200, 202}

\* C1: two Submit requests with the same URL get the same job id, and at most
\* one pipeline run is started for a job id while the job is not FAILED.
C1_SameJobOneRun ==
    /\ \A g, h \in SubmitIds :
         Answered(g) /\ Answered(h) /\ sub[g].url = sub[h].url => sub[g].job = sub[h].job
    /\ \A j \in JobIds : job[j].runs <= 1

ForwardTransitions ==
    {<<"PENDING", "RUNNING">>, <<"RUNNING", "COMPLETED">>, <<"RUNNING", "FAILED">>}

\* C2: every change of a stored Job status is PENDING to RUNNING, RUNNING to
\* COMPLETED or RUNNING to FAILED.
C2_OnlyForwardTransitions ==
    [][\A j \in JobIds :
         job[j].exists /\ job'[j].status # job[j].status
           => <<job[j].status, job'[j].status>> \in ForwardTransitions]_vars

\* C3: whenever a Job is FAILED by its run (stage error, stage timeout or global
\* timer) and the run was holding a transcript, the Video row of the run's URL
\* exists and holds that transcript.
C3_TranscriptKeptOnFailure ==
    \A j \in JobIds :
       job[j].status = "FAILED" /\ job[j].lost # NoLoss
         => /\ video[job[j].lost.u].exists
            /\ video[job[j].lost.u].transcript = job[j].lost.t

\* C4: when a Retry has failed after it started, the Result, Claims and
\* SpotChecks are what they were before the Retry and the Job is COMPLETED.
C4_FailedRetryRestores ==
    \A r \in RetryIds :
       ret[r].pc = "done" /\ ret[r].resp = 500
         => /\ Snapshot(ret[r].job) = ret[r].before
            /\ job[ret[r].job].status = "COMPLETED"

\* C5: one pipeline run, its timer callback included, writes a terminal status
\* at most once.
C5_TerminalWrittenOnce == \A h \in SubmitIds : sub[h].termWrites <= 1

\* The store writes of a run (attempted ones included).
RunWrites(h) ==
    \/ RunDurationReject(h)
    \/ RunUpsertVideo(h)
    \/ RunCreateAnalysis(h)
    \/ RunCreateClaim(h)
    \/ RunCreateSpotCheck(h)
    \/ RunComplete(h)
    \/ RunCatchSave(h)
    \/ RunCatchFail(h)

\* C6: when the global timer of a run fires the Job becomes FAILED with the
\* timeout message, and after that the run makes no store write.
C6_AbandonedAfterTimeout ==
    [][\A h \in SubmitIds :
         /\ TimerFire(h) => /\ job'[sub[h].job].status = "FAILED"
                            /\ job'[sub[h].job].errorMessage = MsgTimeout
         /\ sub[h].timer = "fired" => ~RunWrites(h)]_vars

\* C7: a COMPLETED Job stays COMPLETED under Submit, pipeline runs, timer
\* callbacks and mark_failed (every operation except Retry).
C7_CompletedStays ==
    [][\A j \in JobIds :
         job[j].status = "COMPLETED" /\ ~(\E r \in RetryIds : RetryStep(r))
           => job'[j].status = "COMPLETED"]_vars

C9_RetryNoAcquisition ==
    [][(\E r \in RetryIds : RetryStep(r)) => workerCalls' = workerCalls]_vars

C9_Witness ==
    \E r \in RetryIds :
       /\ ret[r].pc = "done" /\ ret[r].resp = 200
       /\ ret[r].before.analysis.exists
       /\ analysis[ret[r].job].by[1] = "retry"

\* The claims and spot checks of job id are exactly those of one output.
SingleOutput(id) ==
    \E b \in {RunBy(h) : h \in SubmitIds} \cup {RetryBy(r) : r \in RetryIds} :
       /\ ClaimsOf(id) = {Row(id, b, i) : i \in ClaimIdx}
       /\ SpotChecksOf(id) = {Row(id, b, i) : i \in ClaimIdx}

\* C10: once the Retries of a job have all finished successfully, interleaved
\* or not, the Result's Claims and SpotChecks are those of one single analysis
\* output.
C10_ClaimsOfOneOutput ==
    \A j \in JobIds :
       /\ \A r \in RetryIds : ret[r].pc \in {"idle", "done"} /\ ret[r].resp # 500
       /\ \E r \in RetryIds : ret[r].job = j /\ ret[r].resp = 200
       => SingleOutput(j)

\* The seeded state of SpecRetry is a state Spec reaches.
CompletedRunReached == ~InitRetry

\* C11: in every reachable state a Job with a non-null errorMessage is FAILED;
\* a PENDING, RUNNING or COMPLETED Job carries no error message.
C11_MessageOnlyWhenFailed ==
    \A j \in JobIds :
       job[j].exists /\ job[j].errorMessage # Null => job[j].status = "FAILED"

\* C12: Poll answers not-found exactly when no Job has the id; otherwise its
\* response contains the analysis only if the status it reports is COMPLETED,
\* and contains the error message when that status is FAILED.
C12_PollByStatus ==
    /\ [][\A id \in PollInputs :
            PollFind(id) => (poll'.resp = 404 <=> ~job[id].exists)]_vars
    /\ [](poll.pc = "done" /\ poll.resp = 200
            => /\ poll.body.result.analysis.exists => poll.body.status = "COMPLETED"
               /\ poll.body.status = "FAILED" => poll.body.errorMessage # Null)

\* A Job that Submit reuses: COMPLETED with its Result, or PENDING or RUNNING.
Reusable(id) ==
    /\ job[id].exists
    /\ \/ job[id].status = "COMPLETED" /\ analysis[id].exists
       \/ job[id].status \in {"PENDING", "RUNNING"}

\* C13: a Submit whose lookup finds the Job COMPLETED with a Result, or PENDING
\* or RUNNING, answers the existing job id, starts no pipeline run and leaves
\* the Job, Video and Result stores as they are.
C13_ReuseLeavesStores ==
    [][\A h \in SubmitIds : \A u \in RequestInputs :
         /\ sub[h].pc = "idle" /\ sub'[h].pc # "idle" /\ sub'[h].url = u
         /\ ValidUrl(u) /\ apiKeySet
         /\ Reusable(generateJobId(u, h))
         => /\ sub'[h].pc = "done"
            /\ sub'[h].job = generateJobId(u, h)
            /\ sub'[h].resp = IF job[generateJobId(u, h)].status = "COMPLETED"
                              THEN 200 ELSE 202
            /\ UNCHANGED <<job, video, analysis, claims, spotChecks>>]_vars

C13_Witness ==
    \E h \in SubmitIds :
       /\ sub[h].pc = "done" /\ sub[h].resp = 200 /\ sub[h].found = "COMPLETED"
       /\ sub[h].timer = "unset" /\ sub[h].called = {}
       /\ job[sub[h].job].status = "COMPLETED"

\* C14: a Submit whose lookup finds no Job, or finds it FAILED, goes on to the
\* upsert, which leaves the Job PENDING with a null error message, and starts
\* exactly one pipeline run for it (the run is started by the upsert step and
\* by no other step of the handler).
C14_AbsentOrFailedStartsOneRun ==
    [][\A h \in SubmitIds :
         /\ sub[h].pc = "idle" /\ sub'[h].found \in {"ABSENT", "FAILED"}
              => sub'[h].pc = "findVideo"
         /\ sub[h].found \in {"ABSENT", "FAILED"}
              => /\ sub[h].pc = "upsert" /\ sub'[h].pc # "upsert"
                    => /\ sub'[h].pc = "setRunning"
                       /\ job'[sub[h].job].exists
                       /\ job'[sub[h].job].status = "PENDING"
                       /\ job'[sub[h].job].errorMessage = Null
                       /\ job'[sub[h].job].runs = job[sub[h].job].runs + 1
                 /\ sub'[h].pc = "setRunning" /\ sub[h].pc # "setRunning"
                    => sub[h].pc = "upsert"
                 /\ sub[h].pc \notin {"idle", "findVideo", "upsert"}
                    => sub'[h].pc \notin {"idle", "findVideo", "upsert"}]_vars

C14_Witness ==
    \E h \in SubmitIds :
       /\ sub[h].found = "FAILED" /\ sub[h].pc = "setRunning" /\ sub[h].resp = 202
       /\ job[sub[h].job].status = "PENDING"
       /\ job[sub[h].job].errorMessage = Null

C16_CachedTranscriptUsed ==
    [][\A h \in SubmitIds :
         /\ sub[h].pc = "transcript" /\ sub'[h].pc # "transcript"
         /\ video[sub[h].url].exists /\ Truthy(video[sub[h].url].transcript)
         => /\ workerCalls' = workerCalls
            /\ sub'[h].transcript = video[sub[h].url].transcript]_vars

\* The Video, Result, Claim and SpotCheck writes of the persistence stage and
\* its final status update.
PersistenceWrites(h) ==
    \/ RunUpsertVideo(h)
    \/ RunCreateAnalysis(h)
    \/ RunCreateClaim(h)
    \/ RunCreateSpotCheck(h)
    \/ RunComplete(h)

\* The run holds the transcript of a finished transcript stage.
TranscriptStageDone(h) ==
    sub[h].called \cap {"cache", "worker"} # {} /\ sub[h].transcript # Null

\* C17: within one run the metadata call has finished before the transcript
\* stage acts, the transcript stage has finished before the analysis adapter
\* is called, and the analysis has finished before any write of the
\* persistence stage.
C17_StagesInOrder ==
    [][\A h \in SubmitIds :
         /\ RunReuseTranscript(h) \/ RunAcquireTranscript(h)
              => sub[h].called = {"metadata"}
         /\ RunAnalysis(h)
              => /\ "metadata" \in sub[h].called /\ TranscriptStageDone(h)
                 /\ "analysis" \notin sub[h].called
         /\ PersistenceWrites(h)
              => /\ {"metadata", "analysis"} \subseteq sub[h].called
                 /\ TranscriptStageDone(h)
                 /\ sub[h].out # "none"]_vars

C17_Witness ==
    \E h \in SubmitIds :
       /\ sub[h].pc = "done" /\ sub[h].err = Null /\ sub[h].out = "full"
       /\ sub[h].called = {"metadata", "cache", "analysis"}
       /\ job[sub[h].job].status = "COMPLETED"

\* Messages of a failed store write of the persistence stage.
PersistenceErrors == {MsgStore, MsgUnique, MsgForeignKey}

C20_ResultReplaced ==
    /\ [](\A j \in JobIds : analysis[j].exists => job[j].exists)
    /\ [][\A h \in SubmitIds :
            /\ sub[h].pc = "createAnalysis" /\ sub'[h].pc # "createAnalysis"
            /\ analysis[sub[h].job].exists
            => /\ analysis'[sub[h].job].exists
               /\ analysis'[sub[h].job].by = RunBy(h)
               /\ sub'[h].err = Null]_vars

\* C21: in a run, every stage timer's delay is smaller than the global timer's
\* delay, and when a raced stage starts, its timer's delay is smaller than what is
\* left of the global delay.
C21_StageTimeoutWithinBudget ==
    /\ stage.rev \in Revisions
          => \A st \in TimedStages(stage.rev) :
                StageTimeout(stage.rev, st) < GlobalTimeout(stage.rev)
    /\ stage.pc \in TimedStages(stage.rev)
          => StageTimeout(stage.rev, stage.pc) < GlobalTimeout(stage.rev) - stage.now

\* The result a strategy of the run came back with, if it was invoked.
Invoked(st) == \E k \in DOMAIN stage.results : stage.results[k].stage = st
ResultOf(st) ==
    LET k == CHOOSE k \in DOMAIN stage.results : stage.results[k].stage = st
    IN  stage.results[k].result
\* The strategy returned no transcript, threw or timed out.
StrategyFailed(st) ==
    Invoked(st) /\ ResultOf(st) \in {"none", "empty", "threw", "timeout"}

\* C22: once the transcript stage of a run of the captions, fast transcription,
\* Vercel-optimized Whisper chain is over, a strategy has been invoked exactly
\* when every earlier strategy returned no transcript, threw or timed out, and
\* the run has failed at the transcript stage only if the last strategy failed.
C22_StrategiesInOrder ==
    stage.rev = "optimized" /\ stage.pc \in {"analysis", "persist", "failed"}
      => LET chain == Chain(stage.rev)
         IN  /\ \A k \in DOMAIN chain :
                  Invoked(chain[k]) <=> \A j \in 1..(k - 1) : StrategyFailed(chain[j])
             /\ stage.pc = "failed" /\ stage.err # "analysis"
                  => StrategyFailed(chain[Len(chain)])

\* The order in which the options are to be tried for a discovered format.
DeclaredOrder(f) == <<f>> \o fallbackFormatOptions

\* C23: downloadYouTubeAudio tries its format options in the declared order,
\* the discovered format first; it makes no attempt after a successful one and
\* returns that download; it throws the all-attempts-failed error only after
\* every option has failed, and that error carries the message of the last
\* failed attempt.
C23_DownloadInOrder ==
    /\ [](dl.tried # <<>>
            => /\ dl.tried = SubSeq(DeclaredOrder(dl.tried[1]), 1, Len(dl.tried))
               /\ dl.tried[1] \in DiscoveredFormats)
    /\ [](dl.pc = "returned"
            => dl.result = dl.tried[Len(dl.tried)])
    /\ [][dl.pc = "returned" => dl' = dl]_vars
    /\ [](dl.pc = "thrown" /\ dl.tried # <<>>
            => /\ dl.tried = DeclaredOrder(dl.tried[1])
               /\ dl.thrown = <<MsgAllFailed, dl.attemptError>>)

C23_Witness ==
    /\ dl.pc = "thrown"
    /\ Len(dl.tried) = Len(fallbackFormatOptions) + 1
    /\ dl.thrown = <<MsgAllFailed, "Download timeout">>

\* The fields an analysis must have.
RequiredKeys == {"oneLiner", "bulletPoints", "trustScore"}

\* C24: analyzeTranscript returns a result only if the parsed output contains
\* oneLiner, bulletPoints and trustScore, and fails with an error when one of
\* them is missing (so that a run is never handed an incomplete structure).
C24_IncompleteOutputFails ==
    /\ llm.pc = "returned" => RequiredKeys \subseteq llm.result.keys
    /\ llm.pc \in {"returned", "thrown"} /\ llm.content.json
         /\ ~(RequiredKeys \subseteq llm.content.keys)
         => llm.pc = "thrown"

\* C25: analyzeTranscript calls the alternate model at most once and only
\* after the primary call failed with quota-exceeded; after any other primary
\* failure, and after a failure of the alternate call, it throws and makes no
\* further LLM call.
C25_OneFallbackOnQuota ==
    /\ [][llm'.calls # llm.calls
            => \/ llm.calls = <<>> /\ llm'.calls = <<PrimaryModel>>
               \/ /\ llm.calls = <<PrimaryModel>>
                  /\ llm'.calls = <<PrimaryModel, AlternateModel>>
                  /\ llm.error = QuotaExceeded]_vars
    /\ [](llm.error \notin {NoApiError, QuotaExceeded} \/ llm.fallbackError # NoApiError
            => llm.pc = "thrown")
    /\ [][llm.pc = "thrown" => llm' = llm]_vars

C25_Witness ==
    /\ llm.pc = "thrown"
    /\ llm.calls = <<PrimaryModel, AlternateModel>>
    /\ llm.error = QuotaExceeded
    /\ llm.fallbackError = [status |-> 503, code |-> Null]

\* A url that is a string containing youtube.com or youtu.be.
YouTubeString(u) == u.form \in {"watch", "short", "embed", "v", "live", "channel"}

\* C26: a Submit whose url is missing, not a string or without youtube.com and
\* youtu.be is answered 400, and a Submit made while OPENAI_API_KEY is unset is
\* answered 500; in these cases no Job is created or modified and no pipeline
\* run is started.
C26_InvalidSubmitRejected ==
    /\ [][\A h \in SubmitIds :
            /\ sub[h].pc = "idle" /\ sub'[h].pc # "idle"
            /\ ~YouTubeString(sub'[h].url) \/ ~apiKeySet
            => /\ sub'[h].pc = "done"
               /\ sub'[h].resp = IF ~YouTubeString(sub'[h].url) THEN 400 ELSE 500
               /\ UNCHANGED <<job, video, analysis, claims, spotChecks, workerCalls>>]_vars
    /\ [](\A h \in SubmitIds :
            sub[h].resp \in {400, 500}
              => /\ sub[h].pc = "done" /\ sub[h].job = NoJobId
                 /\ sub[h].timer = "unset" /\ sub[h].called = {})

C26_Witness ==
    /\ ~apiKeySet
    /\ sub[1].pc = "done" /\ sub[1].url = UrlNumber /\ sub[1].resp = 400
    /\ sub[2].pc = "done" /\ sub[2].url = UrlWatch /\ sub[2].resp = 500
    /\ \A j \in JobIds : ~job[j].exists

\* C27: mark_failed with a list of job ids sets exactly the listed jobs that
\* are RUNNING or PENDING to FAILED with the manual-failure message, and leaves
\* listed COMPLETED or FAILED jobs, unlisted jobs and the other stores as they
\* are.
C27_MarkFailedFrame ==
    [][\A ids \in MarkFailedInputs :
         MarkFailed(ids)
           => /\ \A j \in JobIds :
                   IF j \in ids /\ job[j].exists /\ job[j].status \in {"RUNNING", "PENDING"}
                   THEN /\ job'[j].status = "FAILED"
                        /\ job'[j].errorMessage = MsgManual
                        /\ job'[j].videoUrl = job[j].videoUrl
                   ELSE job'[j] = job[j]
              /\ UNCHANGED <<video, analysis, claims, spotChecks>>]_vars

C27_Witness ==
    /\ job[VidJob(1)].status = "FAILED"
    /\ job[VidJob(1)].errorMessage = MsgManual
    /\ \E h \in SubmitIds : sub[h].job = VidJob(1) /\ sub[h].pc = "analysis"

\* C28: no step removes a Video row, and a Video row that holds a non-empty
\* transcript holds a non-empty transcript after every step (a write by any
\* run, re-run or failure path never stores an empty one over it).
C28_TranscriptKept ==
    [][\A u \in Urls :
         /\ video[u].exists => video'[u].exists
         /\ video[u].exists /\ Truthy(video[u].transcript)
              => Truthy(video'[u].transcript)]_vars

\* C29: once a run has written a terminal status (on success, in the catch
\* block or by the duration rejection) and returned, its global timer is
\* cancelled: the timer's callback does not afterwards change the status or the
\* error message of the job, also when the job has been submitted again.
C29_TimerCancelledAtEnd ==
    [][\A h \in SubmitIds :
         /\ sub[h].pc = "done" /\ sub[h].job # NoJobId
         /\ sub[h].timer = "armed" /\ sub'[h].timer = "fired"
         => /\ job'[sub[h].job].status = job[sub[h].job].status
            /\ job'[sub[h].job].errorMessage = job[sub[h].job].errorMessage]_vars

\* C30: after mark_failed has forced a RUNNING job to FAILED with the
\* manual-failure message, the job keeps that status and message in every step
\* that is not a new Submit's upsert of the job or the start of its run: the
\* run that was in flight (past its RUNNING write) neither sets the job
\* COMPLETED nor rewrites its error message.
C30_ManualFailureKept ==
    [][\A j \in JobIds :
         /\ job[j].exists /\ job[j].status = "FAILED" /\ job[j].errorMessage = MsgManual
         /\ ~\E h \in SubmitIds : sub[h].pc \in {"upsert", "setRunning"} /\ sub'[h].pc # sub[h].pc
         => /\ job'[j].status = "FAILED"
            /\ job'[j].errorMessage = MsgManual]_vars

\* C31: with the process alive, store writes succeeding and armed timers
\* firing, a run that has set its Job RUNNING is followed by the Job being
\* COMPLETED or FAILED, also when an adapter call never returns.
HasSetRunning(h) ==
    /\ sub[h].job # NoJobId
    /\ sub[h].pc \notin {"idle", "findVideo", "upsert", "setRunning"}

C31_RunEndsTerminal ==
    \A h \in SubmitIds :
        HasSetRunning(h)
          ~> (sub[h].job # NoJobId /\ job[sub[h].job].status \in {"COMPLETED", "FAILED"})

C31_Witness ==
    \E h \in SubmitIds :
        /\ sub[h].pc = "analysis" /\ sub[h].timer = "fired"
        /\ job[sub[h].job].status = "FAILED"
        /\ job[sub[h].job].errorMessage = MsgTimeout

\* C32: in every reachable state a Job with status COMPLETED has a Result
\* (an Analysis row) linked to it.
C32_CompletedHasResult ==
    \A j \in JobIds :
        job[j].exists /\ job[j].status = "COMPLETED" => analysis[j].exists

C32_Witness ==
    \E r \in MixedRetryIds :
        /\ ret[r].pc = "done" /\ ret[r].resp = 200
        /\ job[VidJob(1)].status = "COMPLETED"
        /\ analysis[VidJob(1)].exists /\ analysis[VidJob(1)].by = RetryBy(r)

\* C33: a Submit request that is answered with status 500 has created or
\* changed no Job and has started no pipeline run.
C33_ServerErrorNoEffect ==
    /\ [][\A h \in SubmitIds :
            sub[h].resp # 500 /\ sub'[h].resp = 500 => UNCHANGED job]_vars
    /\ [](\A h \in SubmitIds :
            sub[h].resp = 500 => sub[h].pc = "done" /\ sub[h].timer = "unset")

\* C34: after each setRunning, setCompleted and setFailed call of the runner,
\* memoryQueue.getStatus of the job id equals the status of the Job row
\* (RUNNING, COMPLETED and FAILED respectively).
C34_QueueMirrorsStore ==
    [][\A r \in QueueRuns :
         /\ mq'.run[r].pc # mq.run[r].pc
         /\ mq'.run[r].pc \in {"running", "late", "done"}
         => getStatus(mq'.jobs, mq'.run[r].id) = mq'.store[mq'.run[r].id]]_vars

\* C35: fetchCaptions makes at most 3 fetch attempts, pauses attempt times
\* 1 second after a failed attempt before the next one, returns null without
\* another attempt when a fetch gives an empty track, returns null after the
\* third failure, and never throws.
Failures(log) == {i \in DOMAIN log : log[i] \in FetchFailures}

C35_CaptionRetries ==
    /\ Len(cap.log) <= 3
    /\ \A i \in DOMAIN cap.waited : cap.waited[i] = i * 1000
    /\ cap.pc = "fetch" => Len(cap.waited) = Len(cap.log) /\ Failures(cap.log) = DOMAIN cap.log
    /\ \A i \in DOMAIN cap.log :
         cap.log[i] = "empty" => i = Len(cap.log) /\ cap.pc = "done" /\ cap.result = Null
    /\ Cardinality(Failures(cap.log)) = 3 => cap.pc = "done" /\ cap.result = Null
    /\ cap.pc = "done" /\ cap.result = Null /\ cap.log # <<>>
         => cap.log[Len(cap.log)] = "empty" \/ Cardinality(Failures(cap.log)) = 3
    /\ ~cap.thrown

C35_Witness ==
    /\ cap.pc = "done" /\ cap.result = Null
    /\ cap.log = <<"timeout", "rejected", "rejected">>
    /\ cap.waited = <<1000, 2000>>

\* C36: the transcript of chunked audio is the chunk texts joined in ascending
\* chunk index, whatever order the chunk transcriptions settled in, and when a
\* chunk transcription fails the whole transcription fails.
C36_ChunksInIndexOrder ==
    /\ wh.pc = "done" /\ wh.thrown = Null
         => /\ wh.result = [k \in 1..Len(wh.files) |-> ChunkText(k - 1)]
            /\ wh.rejected = {}
    /\ wh.pc = "done" /\ wh.rejected # {} => wh.thrown # Null

C36_Witness ==
    /\ wh.pc = "done" /\ wh.thrown = Null
    /\ wh.settled = <<2, 0, 1>>
    /\ wh.result = <<ChunkText(0), ChunkText(1), ChunkText(2)>>

\* C37: downloadYouTubeAudio returns only with a file of at most maxSizeBytes
\* (20 MB); a download whose reported total or whose final size is above the
\* ceiling makes its attempt a failed one.
C37_DownloadWithinCeiling ==
    /\ dl.pc = "returned" => dl.fileSize <= 20 * 1024 * 1024 /\ dl.last.size = dl.fileSize
    /\ \/ dl.last.total > 20 * 1024 * 1024
       \/ dl.last.raced = "downloaded" /\ dl.last.size > 20 * 1024 * 1024
         => /\ dl.pc # "returned"
            /\ dl.attemptError \in {"File too large during download",
                                    "Downloaded file too large"}
            /\ dl.lastError = dl.attemptError
            /\ dl.tried # <<>>

C37_Witness ==
    /\ dl.pc = "returned" /\ dl.fileSize = 20 * 1024 * 1024
    /\ Len(dl.tried) = 3
    /\ dl.lastError = "Downloaded file too large"

\* C38: for every language detectLanguage returns, getLanguageSpecificPrompts
\* returns the instruction template written in that language.
C38_TemplateInDetectedLanguage ==
    lang.pc = "prompted" => lang.template = lang.language

\* C39: Retry answers 400 for a missing jobId, 404 for a jobId without a Job,
\* and 400 for a Job without a Result whose Video holds a transcript; in each
\* case the handler ends at once (the analysis adapter is not invoked) and Job,
\* Result, Claims and SpotChecks are unchanged.
HasRetryTranscript(id) ==
    /\ analysis[id].exists
    /\ video[analysis[id].videoUrl].exists
    /\ Truthy(video[analysis[id].videoUrl].transcript)

C39_RetryPreconditions ==
    [][\A r \in RetryIds :
         ret[r].pc = "idle" /\ ret'[r].pc # "idle"
         => LET id == ret'[r].job
                expected == IF id = NoJobId THEN 400
                            ELSE IF ~job[id].exists THEN 404
                            ELSE IF ~HasRetryTranscript(id) THEN 400
                            ELSE 0
            IN  expected # 0
                  => /\ ret'[r].pc = "done"
                     /\ ret'[r].resp = expected
                     /\ ret'[r].out = "none"
                     /\ UNCHANGED <<job, analysis, claims, spotChecks, video>>]_vars

C39_Witness ==
    \E r \in RetryIds :
        /\ ret[r].pc = "done" /\ ret[r].resp = 400
        /\ ret[r].job = VidJob(1)
        /\ job[VidJob(1)].exists /\ ~HasRetryTranscript(VidJob(1))

====
